---- MODULE Spec2Model ----
(***************************************************************************)
(* EK-KOR v2 coordination core.                                            *)
(*                                                                         *)
(*   Spec        one Module of sim/multi_module.py (start, on_discovery,   *)
(*               tick, _reelect) inside a registry all_modules from which  *)
(*               other modules may disappear;                              *)
(*   SpecDiscovery  the same Module receiving announcements only, from     *)
(*               live peers, in any order;                                 *)
(*   SpecHealth  heartbeat_state_transition of tools/reference_impl.py;    *)
(*   SpecQuorum  quorum_check of tools/reference_impl.py;                  *)
(*   SpecVotes   quorum_check and threshold_votes_needed on the same vote;  *)
(*   SpecFixed   the operators of Q16_16 of tools/reference_impl.py;        *)
(*   SpecGradient  gradient of tools/reference_impl.py.                     *)
(*   SpecDecay     apply_decay of tools/reference_impl.py and Field.decay   *)
(*                 of sim/multi_module.py;                                 *)
(*   SpecTick    one tick of a Module, executed twice from the same state; *)
(*   SpecPair    Simulator.run on two modules; SpecPairFair the same with  *)
(*               the loops of run running on;                              *)
(*   SpecVectors run_test_vector of tools/reference_impl.py on a test      *)
(*               vector for each of its modules.                           *)
(***************************************************************************)
EXTENDS Integers, Sequences, FiniteSets, TLC

VARIABLES
    all_modules,    \* the registry Dict[int, Module] passed to tick / on_discovery: its keys, in dict order
    state,          \* state[m]: Module.state
    neighbors,      \* neighbors[m]: Module.neighbors : List[Neighbor]
    known_modules,  \* known_modules[m]: Module.known_modules, its items() in insertion order
    load,           \* load[m]: Module.load, in units of 1/LoadScale
    my_field,       \* my_field[m]: Module.my_field
    outcome,        \* the last operation: which, on which module, and how it ended
    hb,             \* a call of heartbeat_state_transition: arguments and result
    quorum,         \* a call of quorum_check: arguments and result
    votes,          \* a vote: quorum_check and threshold_votes_needed on the same arguments
    fx,             \* a call of an operator of Q16_16: operands and outcome
    grad,           \* gradient on two fields, both ways round
    dec,            \* apply_decay on one value at two elapsed times
    fdec,           \* a call of Field.decay: the field, now and the outcome
    twin,           \* a second execution of the last tick from the same state
    sim,            \* Simulator.run on two modules: self.now and how far the loops are
    tv              \* a call of run_test_vector: the vector and the result document

moduleVars == <<all_modules, state, neighbors, known_modules, load, my_field, outcome>>
vars == <<all_modules, state, neighbors, known_modules, load, my_field, outcome, hb, quorum, votes, fx, grad, dec, fdec, twin, sim, tv>>

(***************************************************************************)
(* Bounds of the model.                                                    *)
(***************************************************************************)
\* heartbeat_state_transition is called with elapsed_since_last within one
\* microsecond of a multiple of half the heartbeat period, up to MaxElapsedSteps
\* half periods, and with timeout_count in 0 .. MaxTimeoutCount.
MaxElapsedSteps == 12
MaxTimeoutCount == 6
\* quorum_check is called with yes_count and total_voters in 0 .. MaxVoters.
MaxVoters == 10
\* A vote (quorum_check with threshold_votes_needed) has yes_count and
\* total_voters in 0 .. MaxElectorate.
MaxElectorate == 25
\* Q16_16 operands lie within MaxBitsStep bits of zero and of each end of the
\* 32-bit range.
MaxBitsStep == 2
\* timestamp, source and sequence of a Field handed to gradient lie in 0 .. MaxMeta.
MaxMeta == 2
\* apply_decay is called with elapsed_us within one microsecond of a multiple
\* of half a tau, up to MaxDecaySteps halves.
MaxDecaySteps == 11
\* In SpecTick the module has discovered the MaxKnown modules after it, or
\* fewer.
MaxKnown == 4
\* Simulator.run(ticks) on two modules: the rounds of the main loop, and the
\* first of them in which the modules may be ticked out of registry order.
MaxRounds == 25
MaxShuffledRounds == 5
\* A test vector holds up to MaxVotes votes, and its floats lie on the bits of
\* Q16.16 or at n / d of one, n and d in 1 .. MaxUlpParts.
MaxVotes == 4
MaxUlpParts == 4
\* Modules that may be missing from the registry at the same time.
MaxAbsent == 2
\* In SpecDiscovery a first announcement comes from one of the first
\* DiscoveryWindow modules, in registry order, that the module has not heard of.
DiscoveryWindow == 3
\* Simulator(grid_size): modules are laid out row by row on a grid this wide.
GridSize == 3

(***************************************************************************)
(* Program constants.                                                      *)
(***************************************************************************)
K_NEIGHBORS == 7
FIELD_DECAY_TAU_US == 100000
HEARTBEAT_PERIOD_US == 10000
HEARTBEAT_TIMEOUT_COUNT == 5
\* Simulator.run(tick_period=1000)
TickPeriod == 1000

\* Simulator(num_modules): the smallest population in which a module can know
\* more than K_NEIGHBORS live peers while another known peer is gone.
NumModules == K_NEIGHBORS + 3
ModuleIds == 1 .. NumModules
\* The module whose operations are modelled: Module(id=1, ...).
Self == 1

\* Floats are kept as integers in units of 1/LoadScale.
LoadScale == 10 * 1000

(***************************************************************************)
(* Position                                                                *)
(***************************************************************************)
Position(x, y, z) == [x |-> x, y |-> y, z |-> z]

\* Simulator.__init__: module i+1 sits at (i % grid_size, i // grid_size, 0).
PositionOf(id) == Position((id - 1) % GridSize, (id - 1) \div GridSize, 0)

distance_squared(p, other) ==
    (p.x - other.x) * (p.x - other.x)
    + (p.y - other.y) * (p.y - other.y)
    + (p.z - other.z) * (p.z - other.z)

(***************************************************************************)
(* Field                                                                   *)
(***************************************************************************)
Field(l, th, pw, ts, src) ==
    [load |-> l, thermal |-> th, power |-> pw, timestamp |-> ts, source |-> src]

\* Field(): every dataclass default.
DefaultField == Field(0, 0, 0, 0, 0)

\* math.exp(-elapsed / FIELD_DECAY_TAU_US) for -tau <= elapsed <= tau, in units
\* of 1/LoadScale, by the power series of exp.
RECURSIVE ExpSeries(_, _, _)
ExpSeries(elapsed, k, term) ==
    IF term = 0 THEN 0
    ELSE term + ExpSeries(elapsed, k + 1,
                          (0 - term * elapsed) \div (FIELD_DECAY_TAU_US * (k + 1)))

\* math.exp(-elapsed / FIELD_DECAY_TAU_US) for any elapsed of a few tau, in
\* units of 1/LoadScale: exp(-(e + tau)/tau) = exp(-e/tau) * exp(-1) and
\* exp(-(e - tau)/tau) = exp(-e/tau) * exp(1) bring elapsed within a tau of 0.
\* The factor is at least 1 for a negative elapsed, below 1 and positive for
\* a positive elapsed of a few tau.
RECURSIVE DecayFactor(_)
DecayFactor(elapsed) ==
    IF elapsed < 0 - FIELD_DECAY_TAU_US
    THEN (DecayFactor(elapsed + FIELD_DECAY_TAU_US)
             * ExpSeries(0 - FIELD_DECAY_TAU_US, 0, LoadScale)) \div LoadScale
    ELSE IF elapsed >= FIELD_DECAY_TAU_US
    THEN (DecayFactor(elapsed - FIELD_DECAY_TAU_US)
             * ExpSeries(FIELD_DECAY_TAU_US, 0, LoadScale)) \div LoadScale
    ELSE ExpSeries(elapsed, 0, LoadScale)

\* Field.decay stamping the returned field with now.
decay_Restamped(f, now) ==
    LET factor == DecayFactor(now - f.timestamp)
    IN  Field((f.load * factor) \div LoadScale,
              (f.thermal * factor) \div LoadScale,
              (f.power * factor) \div LoadScale,
              now, f.source)

\* Field.decay(now)
decay(f, now) ==
    LET factor == DecayFactor(now - f.timestamp)
    IN  Field((f.load * factor) \div LoadScale,
              (f.thermal * factor) \div LoadScale,
              (f.power * factor) \div LoadScale,
              f.timestamp, f.source)

\* random.uniform(0, 0.3): the two ends of the interval.
ThermalSamples == {0, (3 * LoadScale) \div 10}

(***************************************************************************)
(* Neighbor                                                                *)
(***************************************************************************)
\* Neighbor(id=, distance=, health=): last_seen and last_field keep their defaults.
\* Records are compared field by field, as the dataclass __eq__ does.
Neighbor(id, dist, health) ==
    [id |-> id, health |-> health, last_seen |-> 0, last_field |-> "None",
     distance |-> dist]

NeighborIds(nbrs) == {nbrs[i].id : i \in 1 .. Len(nbrs)}
\* [n.id for n in nbrs]
Ids(nbrs) == [i \in 1 .. Len(nbrs) |-> nbrs[i].id]

(***************************************************************************)
(* known_modules: the dict as the sequence of its items, insertion order.  *)
(***************************************************************************)
KnownIds(known) == {known[i].id : i \in 1 .. Len(known)}

\* The assignment with the dict started afresh: only the new item is kept.
Upsert_Fresh(known, id, pos, dist) == <<[id |-> id, pos |-> pos, dist |-> dist]>>

\* self.known_modules[sender_id] = (sender_position, distance): a new key goes
\* to the end, an existing key keeps its place and takes the new value.
Upsert(known, id, pos, dist) ==
    LET item == [id |-> id, pos |-> pos, dist |-> dist]
    IN  IF id \in KnownIds(known)
        THEN [i \in 1 .. Len(known) |-> IF known[i].id = id THEN item ELSE known[i]]
        ELSE Append(known, item)

\* sorted(items, key=distance): Python's sort is stable, so items of equal
\* distance stay in the order of the dict.
RECURSIVE InsertByDistance(_, _)
InsertByDistance(sorted, item) ==
    IF sorted = << >> THEN <<item>>
    ELSE IF item.dist < Head(sorted).dist THEN <<item>> \o sorted
    ELSE <<Head(sorted)>> \o InsertByDistance(Tail(sorted), item)

\* The items left in the order of the dict.
SortedByDistance_Unsorted(items) == items

RECURSIVE SortedByDistance(_)
SortedByDistance(items) ==
    IF items = << >> THEN << >>
    ELSE InsertByDistance(SortedByDistance(SubSeq(items, 1, Len(items) - 1)),
                          items[Len(items)])

\* FirstK with the slice dropped: every sorted item is a candidate.
FirstK_NoSlice(items) == items

\* sorted_known[:K_NEIGHBORS]
FirstK(items) ==
    SubSeq(items, 1, IF Len(items) < K_NEIGHBORS THEN Len(items) ELSE K_NEIGHBORS)

\* for mod_id, (pos, dist) in ...: if mod_id != self.id and mod_id in all_modules: append
RECURSIVE ElectFrom(_, _, _)
ElectFrom(self, items, live) ==
    IF items = << >> THEN << >>
    ELSE LET it == Head(items)
             rest == ElectFrom(self, Tail(items), live)
         IN  IF it.id # self /\ it.id \in live
             THEN <<Neighbor(it.id, it.dist, "ALIVE")>> \o rest
             ELSE rest

\* Module._reelect(all_modules): the new value of self.neighbors.
_reelect(self, known, live) == ElectFrom(self, FirstK(SortedByDistance(known)), live)

\* x in list, by ==
Contains(list, x) == \E i \in 1 .. Len(list) : list[i] = x

\* neighbor.id in all_modules
Live(registry) == {registry[i] : i \in 1 .. Len(registry)}

(***************************************************************************)
(* Module.tick, step 1: for neighbor in self.neighbors[:] ...              *)
(* copy is what is left of the snapshot self.neighbors[:], nbrs the        *)
(* current self.neighbors. list.remove raises ValueError when no element   *)
(* of the current list equals the neighbor; the exception leaves tick.     *)
(* _reelect then replaces the list the neighbor was removed from.          *)
(***************************************************************************)
RECURSIVE PruneLoop(_, _, _, _, _, _)
PruneLoop(self, copy, nbrs, known, live, reelected) ==
    IF copy = << >>
    THEN [neighbors |-> nbrs, raised |-> "none", reelected |-> reelected]
    ELSE IF Head(copy).id \in live
    THEN PruneLoop(self, Tail(copy), nbrs, known, live, reelected)
    ELSE IF ~Contains(nbrs, Head(copy))
    THEN [neighbors |-> nbrs, raised |-> "ValueError", reelected |-> reelected]
    ELSE PruneLoop(self, Tail(copy), _reelect(self, known, live), known, live, TRUE)

\* Step 2: the decayed loads of the neighbors found in all_modules.
RECURSIVE SampledLoads(_, _, _, _)
SampledLoads(nbrs, live, fields, now) ==
    IF nbrs = << >> THEN << >>
    ELSE LET rest == SampledLoads(Tail(nbrs), live, fields, now)
         IN  IF Head(nbrs).id \in live
             THEN <<decay(fields[Head(nbrs).id], now).load>> \o rest
             ELSE rest

RECURSIVE Sum(_)
Sum(xs) == IF xs = << >> THEN 0 ELSE Head(xs) + Sum(Tail(xs))

Max(a, b) == IF a > b THEN a ELSE b
Min(a, b) == IF a < b THEN a ELSE b

AdjustedLoad_Frozen(own, samples) == own

\* Steps 3 and 4: the load after the adjustment toward the neighbor average.
AdjustedLoad(own, samples) ==
    IF Len(samples) > 0
    THEN LET neighbor_avg == Sum(samples) \div Len(samples)
             gradient == neighbor_avg - own
         IN  Max(0, Min(LoadScale, own + gradient \div 10))
    ELSE own

\* Step 6
StateFor(count) ==
    IF count >= K_NEIGHBORS \div 2 THEN "ACTIVE"
    ELSE IF count > 0 THEN "DEGRADED"
    ELSE "ISOLATED"

\* The neighbors of a list that are missing from the registry.
Absent(nbrs, live) == {i \in 1 .. Len(nbrs) : nbrs[i].id \notin live}

\* Step 2: the ids of the neighbors whose fields are added to neighbor_load_sum.
SampledIds(nbrs, live) == SelectSeq(Ids(nbrs), LAMBDA id : id \in live)

\* Step 3: gradient = neighbor_avg - self.load, when neighbor_count > 0.
GradientOf(own, samples) ==
    IF Len(samples) > 0 THEN Sum(samples) \div Len(samples) - own ELSE 0

\* Step 5: the field tick publishes.
PublishedField(m, new_load, thermal, now) ==
    Field(new_load, thermal, (new_load * 8) \div 10, now, m)

\* What the last operation was: op on module m; raised is the exception that
\* left it ("none": it returned); vanished counts the neighbors tick found
\* missing from the registry on entry; reelected tells whether _reelect ran;
\* sampled lists the modules whose fields a tick added to neighbor_load_sum and
\* gradient is the gradient it computed from them (0 when it computed none).
Outcome(op, m, raised, vanished, reelected) ==
    [op |-> op, module |-> m, raised |-> raised, vanished |-> vanished,
     reelected |-> reelected, sampled |-> << >>, gradient |-> 0]

(***************************************************************************)
(* Operations of a Module                                                  *)
(***************************************************************************)
start(m) ==
    /\ state' = [state EXCEPT ![m] = "DISCOVERING"]
    /\ outcome' = Outcome("start", m, "none", 0, FALSE)
    /\ UNCHANGED <<all_modules, neighbors, known_modules, load, my_field>>

\* The guard of on_discovery, with the re-election made unconditional.
NeedsReelection_Always(count) == TRUE

\* The guard of on_discovery one off: a full list is re-elected too.
NeedsReelection_AtMost(count) == count <= K_NEIGHBORS

\* if len(self.neighbors) < K_NEIGHBORS
NeedsReelection(count) == count < K_NEIGHBORS

\* on_discovery without the early return for the module's own id.
on_discovery_NoSelfGuard(m, sender_id, sender_position) ==
    LET distance == distance_squared(PositionOf(m), sender_position)
        known == Upsert(known_modules[m], sender_id, sender_position, distance)
        elect == NeedsReelection(Len(neighbors[m]))
    IN  /\ known_modules' = [known_modules EXCEPT ![m] = known]
        /\ neighbors' =
               IF elect
               THEN [neighbors EXCEPT ![m] = _reelect(m, known, Live(all_modules))]
               ELSE neighbors
        /\ outcome' = Outcome("on_discovery", m, "none", 0, elect)
        /\ UNCHANGED <<all_modules, state, load, my_field>>

\* if sender_id == self.id: return
on_discovery(m, sender_id, sender_position) ==
    IF sender_id = m
    THEN /\ outcome' = Outcome("on_discovery", m, "none", 0, FALSE)
         /\ UNCHANGED <<all_modules, state, neighbors, known_modules, load, my_field>>
    ELSE LET distance == distance_squared(PositionOf(m), sender_position)
             known == Upsert(known_modules[m], sender_id, sender_position, distance)
             elect == NeedsReelection(Len(neighbors[m]))
         IN  /\ known_modules' = [known_modules EXCEPT ![m] = known]
             /\ neighbors' =
                    IF elect
                    THEN [neighbors EXCEPT ![m] = _reelect(m, known, Live(all_modules))]
                    ELSE neighbors
             /\ outcome' = Outcome("on_discovery", m, "none", 0, elect)
             /\ UNCHANGED <<all_modules, state, load, my_field>>

\* tick with decay writing the decayed values into the field it is called on:
\* the published fields of the sampled neighbors are overwritten.
TickAfterPruning_InPlace(m, now, thermal, live, pruned, vanished) ==
    LET samples == SampledLoads(pruned.neighbors, live, my_field, now)
        new_load == AdjustedLoad(load[m], samples)
    IN  /\ neighbors' = [neighbors EXCEPT ![m] = pruned.neighbors]
        /\ IF pruned.raised = "none"
           THEN /\ load' = [load EXCEPT ![m] = new_load]
                /\ my_field' =
                       [j \in ModuleIds |->
                           IF j = m THEN PublishedField(m, new_load, thermal, now)
                           ELSE IF j \in NeighborIds(pruned.neighbors) \cap live
                           THEN decay(my_field[j], now)
                           ELSE my_field[j]]
                /\ state' = [state EXCEPT ![m] = StateFor(Len(pruned.neighbors))]
                /\ outcome' = [Outcome("tick", m, "none", vanished, pruned.reelected)
                                  EXCEPT !.sampled = SampledIds(pruned.neighbors, live),
                                         !.gradient = GradientOf(load[m], samples)]
           ELSE /\ outcome' = Outcome("tick", m, pruned.raised, vanished, pruned.reelected)
                /\ UNCHANGED <<load, my_field, state>>
        /\ UNCHANGED <<all_modules, known_modules>>

\* Module.tick after step 1: pruned is what the loop over self.neighbors[:]
\* left (the list, and the exception if one was raised), vanished the number
\* of neighbors it found missing. An exception skips steps 2 to 6.
TickAfterPruning(m, now, thermal, live, pruned, vanished) ==
    LET samples == SampledLoads(pruned.neighbors, live, my_field, now)
        new_load == AdjustedLoad(load[m], samples)
    IN  /\ neighbors' = [neighbors EXCEPT ![m] = pruned.neighbors]
        /\ IF pruned.raised = "none"
           THEN /\ load' = [load EXCEPT ![m] = new_load]
                /\ my_field' = [my_field EXCEPT ![m] = PublishedField(m, new_load, thermal, now)]
                /\ state' = [state EXCEPT ![m] = StateFor(Len(pruned.neighbors))]
                /\ outcome' = [Outcome("tick", m, "none", vanished, pruned.reelected)
                                  EXCEPT !.sampled = SampledIds(pruned.neighbors, live),
                                         !.gradient = GradientOf(load[m], samples)]
           ELSE /\ outcome' = Outcome("tick", m, pruned.raised, vanished, pruned.reelected)
                /\ UNCHANGED <<load, my_field, state>>
        /\ UNCHANGED <<all_modules, known_modules>>

\* tick sampling the neighbors it has on entry, without looking any of them up
\* in all_modules: no neighbor is removed, none is skipped.
tick_SampleFirst(m, now, thermal) ==
    TickAfterPruning(m, now, thermal, ModuleIds,
                     [neighbors |-> neighbors[m], raised |-> "none", reelected |-> FALSE],
                     Cardinality(Absent(neighbors[m], Live(all_modules))))

tick(m, now, thermal) ==
    TickAfterPruning(m, now, thermal, Live(all_modules),
                     PruneLoop(m, neighbors[m], neighbors[m], known_modules[m],
                               Live(all_modules), FALSE),
                     Cardinality(Absent(neighbors[m], Live(all_modules))))

\* The module m as tick(now, all_modules) leaves it, thermal being the value
\* random.uniform(0, 0.3) returns: the fields of m that tick assigns.
TickRun(m, now, thermal) ==
    LET live == Live(all_modules)
        pruned == PruneLoop(m, neighbors[m], neighbors[m], known_modules[m], live, FALSE)
        new_load == AdjustedLoad(load[m], SampledLoads(pruned.neighbors, live, my_field, now))
    IN  IF pruned.raised = "none"
        THEN [raised |-> "none", neighbors |-> pruned.neighbors, load |-> new_load,
              my_field |-> PublishedField(m, new_load, thermal, now),
              state |-> StateFor(Len(pruned.neighbors))]
        ELSE [raised |-> pruned.raised, neighbors |-> pruned.neighbors, load |-> load[m],
              my_field |-> my_field[m], state |-> state[m]]

\* Two executions of tick from the same state: before is the load of the
\* module on entry, run what the second execution leaves.
Twin(called, before, run) == [called |-> called, before |-> before, run |-> run]

IdleTwin ==
    Twin(FALSE, 0, [raised |-> "none", neighbors |-> << >>, load |-> 0,
                    my_field |-> DefaultField, state |-> "INIT"])

(***************************************************************************)
(* Environment                                                             *)
(***************************************************************************)
\* del all_modules[id]: a module Self has heard of disappears from the registry
\* (Self reads the registry only at the ids it knows).
ModuleLeaves(id) ==
    /\ id \in Live(all_modules) \cap KnownIds(known_modules[Self])
    /\ Cardinality(ModuleIds \ Live(all_modules)) < MaxAbsent
    /\ all_modules' = SelectSeq(all_modules, LAMBDA i : i # id)
    /\ outcome' = Outcome("leave", id, "none", 0, FALSE)
    /\ UNCHANGED <<state, neighbors, known_modules, load, my_field>>

\* Simulator.__init__ fills the registry in ascending id; a caller may hand
\* tick and on_discovery a registry built the other way round.
Ascending == [i \in 1 .. NumModules |-> i]
Descending == [i \in 1 .. NumModules |-> NumModules + 1 - i]
RegistryOrders == {Ascending, Descending}

\* Live modules m has not heard of yet, in registry order.
Unknown(m) ==
    SelectSeq(all_modules, LAMBDA i : i # m /\ i \notin KnownIds(known_modules[m]))

\* Simulator.run: for other in self.modules.values(): mod.on_discovery(other.id, ...).
\* A first announcement comes from the next module of the registry that m has
\* not heard of; m itself and any live module m knows may announce at any time.
Announcers(m) ==
    {m} \cup (KnownIds(known_modules[m]) \cap Live(all_modules))
        \cup (IF Unknown(m) = << >> THEN {} ELSE {Head(Unknown(m))})

\* The first n elements of a sequence as a set.
FirstOf(seq, n) == {seq[i] : i \in 1 .. Min(n, Len(seq))}

\* As Announcers, with the first announcements arriving out of registry order.
WindowAnnouncers(m) ==
    {m} \cup (KnownIds(known_modules[m]) \cap Live(all_modules))
        \cup FirstOf(Unknown(m), DiscoveryWindow)

\* tick(now, ...) after the first Simulator.run round.
NowSamples == {TickPeriod}

\* known_modules of m after it has heard, in registry order and with every
\* module live, from the n modules that follow it.
RECURSIVE KnownAfter(_, _)
KnownAfter(m, n) ==
    IF n = 0 THEN << >>
    ELSE Upsert(KnownAfter(m, n - 1), m + n, PositionOf(m + n),
                distance_squared(PositionOf(m), PositionOf(m + n)))

\* Module(load=...): loads inside [0, 1] and on either side of it.
OwnLoadSamples ==
    {0 - LoadScale \div 5, 0, LoadScale \div 5, LoadScale \div 2,
     (4 * LoadScale) \div 5, LoadScale, (3 * LoadScale) \div 2}

\* The loads of the fields the peers have published.
PeerLoadSamples == {LoadScale \div 5, (4 * LoadScale) \div 5}

\* tick(now, ...) in the round in which the peers published and one round later.
TickNowSamples == {TickPeriod, 2 * TickPeriod}

\* The module Self, started, has heard from the n modules after it while all
\* were live; the modules of gone have left the registry since; each peer has
\* published a field in the round of TickPeriod.
TickInit ==
    \E n \in 0 .. MaxKnown :
        \E gone \in SUBSET (Self + 1 .. Self + n), own \in OwnLoadSamples,
           peer \in [Self + 1 .. Self + n -> PeerLoadSamples] :
            /\ Cardinality(gone) <= MaxAbsent
            /\ all_modules = SelectSeq(Ascending, LAMBDA i : i \notin gone)
            /\ state = [m \in {Self} |-> "DISCOVERING"]
            /\ known_modules = [m \in {Self} |-> KnownAfter(Self, n)]
            /\ neighbors = [m \in {Self} |-> _reelect(Self, KnownAfter(Self, n), ModuleIds)]
            /\ load = [m \in {Self} |-> own]
            /\ my_field = [j \in ModuleIds |->
                               IF j \in Self + 1 .. Self + n
                               THEN PublishedField(j, peer[j], 0, TickPeriod)
                               ELSE DefaultField]
            /\ outcome = Outcome("init", Self, "none", 0, FALSE)
            /\ twin = IdleTwin

\* tick(now, all_modules) on Self, and the same call on a copy of Self.
TickTwice ==
    /\ ~twin.called
    /\ \E now \in TickNowSamples, th \in ThermalSamples, again \in ThermalSamples :
           /\ tick(Self, now, th)
           /\ twin' = Twin(TRUE, load[Self], TickRun(Self, now, again))

(***************************************************************************)
(* Simulator.run on two modules                                            *)
(*                                                                         *)
(* now is self.now; ticked holds the modules the loop of the current round *)
(* has ticked; at is the position in the initialization loop (mod.start()  *)
(* and mod.on_discovery(other...) for each module of the registry in       *)
(* turn), "ticking" once the main loop has been entered; initial keeps the *)
(* loads the modules were created with.                                    *)
(***************************************************************************)
Sim(at, now, ticked, initial) == [at |-> at, now |-> now, ticked |-> ticked, initial |-> initial]

IdleSim == Sim(<<"idle">>, 0, {}, << >>)

\* Simulator(num_modules=2): modules 1 and 2, next to each other on the grid.
PairIds == {Self, Self + 1}
Other(m) == IF m = Self THEN Self + 1 ELSE Self

\* Module(load=random.uniform(0.2, 0.8)): the ends and the middle of the range.
InitialLoadSamples == {LoadScale \div 5, LoadScale \div 2, (4 * LoadScale) \div 5}

\* Simulator.__init__ for two modules with different loads; self.modules
\* lists them in either order.
PairInit ==
    /\ all_modules \in {<<Self, Self + 1>>, <<Self + 1, Self>>}
    /\ state = [m \in PairIds |-> "INIT"]
    /\ neighbors = [m \in PairIds |-> << >>]
    /\ known_modules = [m \in PairIds |-> << >>]
    /\ load \in {l \in [PairIds -> InitialLoadSamples] : l[Self] # l[Self + 1]}
    /\ my_field = [m \in ModuleIds |-> DefaultField]
    /\ outcome = Outcome("init", Self, "none", 0, FALSE)
    /\ sim = Sim(<<"start", all_modules[1]>>, 0, {}, load)

\* The control flow of run, which moves through the initialization loop and
\* then through the rounds of the main loop: self.now += tick_period at the
\* head of a round, then one tick for each module, in the order of the
\* registry; in the first MaxShuffledRounds rounds the two modules are ticked
\* in either order.
TickTime == IF sim.ticked = {} THEN sim.now + TickPeriod ELSE sim.now

LoopStart(m) ==
    /\ sim.at = <<"start", m>>
    /\ sim' = [sim EXCEPT !.at = <<"discover", m>>]

LoopDiscovery(m) ==
    /\ sim.at = <<"discover", m>>
    /\ sim' = [sim EXCEPT !.at = IF m = all_modules[1] THEN <<"start", Other(m)>>
                                 ELSE <<"ticking">>]

LoopTick(m) ==
    /\ sim.at = <<"ticking">>
    /\ m \notin sim.ticked
    /\ TickTime <= MaxRounds * TickPeriod
    /\ sim.ticked = {} => (m = all_modules[1] \/ TickTime <= MaxShuffledRounds * TickPeriod)
    /\ sim' = [sim EXCEPT !.now = TickTime,
                          !.ticked = IF sim.ticked = {} THEN {m} ELSE {}]

LoopNext == \E m \in PairIds : LoopStart(m) \/ LoopDiscovery(m) \/ LoopTick(m)

\* run: mod.start()
RunStart(m) == LoopStart(m) /\ start(m)

\* run: mod.on_discovery(other.id, other.position, self.now, self.modules)
RunDiscovery(m) == LoopDiscovery(m) /\ on_discovery(m, Other(m), PositionOf(Other(m)))

\* run: mod.tick(self.now, self.modules)
RunTick(m) == LoopTick(m) /\ \E th \in ThermalSamples : tick(m, TickTime, th)

(***************************************************************************)
(* Heartbeat (tools/reference_impl.py)                                     *)
(***************************************************************************)
HealthStates == {"Unknown", "Alive", "Suspect", "Dead"}

\* The transition with the thresholds tested before the received flag.
heartbeat_state_transition_ThresholdsFirst(current_state, elapsed_since_last, period_us, timeout_count, received_heartbeat) ==
    IF elapsed_since_last > period_us * timeout_count THEN "Dead"
    ELSE IF elapsed_since_last > period_us * 2 THEN "Suspect"
    ELSE IF received_heartbeat THEN "Alive"
    ELSE current_state

\* The transition with inclusive thresholds.
heartbeat_state_transition_Inclusive(current_state, elapsed_since_last, period_us, timeout_count, received_heartbeat) ==
    IF received_heartbeat THEN "Alive"
    ELSE IF elapsed_since_last >= period_us * timeout_count THEN "Dead"
    ELSE IF elapsed_since_last >= period_us * 2 THEN "Suspect"
    ELSE current_state

heartbeat_state_transition(current_state, elapsed_since_last, period_us, timeout_count, received_heartbeat) ==
    IF received_heartbeat THEN "Alive"
    ELSE LET suspect_threshold == period_us * 2
             dead_threshold == period_us * timeout_count
         IN  IF elapsed_since_last > dead_threshold THEN "Dead"
             ELSE IF elapsed_since_last > suspect_threshold THEN "Suspect"
             ELSE IF current_state = "Unknown" THEN "Unknown"
             ELSE current_state

\* A call of heartbeat_state_transition: its arguments and, once it has
\* returned (called), its result.
HbCall(current_state, elapsed, period_us, timeout_count, received) ==
    [called |-> FALSE, current_state |-> current_state, elapsed_since_last |-> elapsed,
     period_us |-> period_us, timeout_count |-> timeout_count,
     received_heartbeat |-> received, result |-> "none"]

IdleHb == HbCall("Unknown", 0, HEARTBEAT_PERIOD_US, HEARTBEAT_TIMEOUT_COUNT, FALSE)

ElapsedSamples ==
    {k * (HEARTBEAT_PERIOD_US \div 2) + d : k \in 0 .. MaxElapsedSteps, d \in {0, 1}}
PeriodSamples == {HEARTBEAT_PERIOD_US, HEARTBEAT_PERIOD_US \div 2}
TimeoutCountSamples == 0 .. MaxTimeoutCount

HealthInit ==
    hb \in {HbCall(c, e, p, t, r) : c \in HealthStates, e \in ElapsedSamples,
                                   p \in PeriodSamples, t \in TimeoutCountSamples,
                                   r \in BOOLEAN}

HeartbeatStep ==
    /\ ~hb.called
    /\ hb' = [hb EXCEPT !.called = TRUE,
                        !.result = heartbeat_state_transition(
                            hb.current_state, hb.elapsed_since_last, hb.period_us,
                            hb.timeout_count, hb.received_heartbeat)]

(***************************************************************************)
(* Python integers (tools/reference_impl.py)                               *)
(*                                                                         *)
(* A Python int is unbounded, and the raw results of the Q16.16 operators  *)
(* reach 2^47 in magnitude. An integer v is kept as two limbs,             *)
(*     v = hi * 2^16 + lo,   0 <= lo < 2^16,                               *)
(* so that for the bits of a Q16.16 number hi is the integer part and lo   *)
(* the fraction.                                                           *)
(***************************************************************************)
FRAC_BITS == 16
\* SCALE = 1 << FRAC_BITS
SCALE == 65536

\* 2^n, n small
RECURSIVE Pow2(_)
Pow2(n) == IF n = 0 THEN 1 ELSE 2 * Pow2(n - 1)

Int2(h, l) == [hi |-> h, lo |-> l]
\* hi * SCALE + x for any x, with lo brought into 0 .. SCALE - 1
Carry(h, x) == [hi |-> h + (x \div SCALE), lo |-> x % SCALE]
FromInt(x) == Carry(0, x)
IntAdd(a, b) == Carry(a.hi + b.hi, a.lo + b.lo)
IntSub(a, b) == Carry(a.hi - b.hi, a.lo - b.lo)
IntNeg(a) == Carry(0 - a.hi, 0 - a.lo)
IntLess(a, b) == a.hi < b.hi \/ (a.hi = b.hi /\ a.lo < b.lo)
IntIsZero(a) == a.hi = 0 /\ a.lo = 0
IntIsNeg(a) == a.hi < 0
IntAbs(a) == IF IntIsNeg(a) THEN IntNeg(a) ELSE a

\* 0x7FFFFFFF and 0x100000000
INT32_MAX == Int2(32767, 65535)
TWO_32 == Int2(65536, 0)
INT32_MIN == Int2(-32768, 0)
InInt32(a) == ~IntLess(a, INT32_MIN) /\ ~IntLess(INT32_MAX, a)

\* floor(x * y / SCALE) for limbs 0 <= x, y < SCALE, the product taken in two
\* halves of y so that no intermediate value leaves 32 bits.
MulHigh(x, y) == ((x * (y \div 256)) + ((x * (y % 256)) \div 256)) \div 256

\* (a * b) >> FRAC_BITS = floor(a * b / SCALE) for a, b within 32 bits:
\* a.hi * b.hi * SCALE + a.hi * b.lo + a.lo * b.hi + floor(a.lo * b.lo / SCALE)
MulShift(a, b) ==
    IntAdd(IntAdd(Int2(a.hi * b.hi, 0), FromInt(a.hi * b.lo)),
           IntAdd(FromInt(a.lo * b.hi), FromInt(MulHigh(a.lo, b.lo))))

\* a.hi * SCALE + a.lo for a within 32 bits
ToInt(a) == a.hi * SCALE + a.lo

\* One limb of a long division by m = mm1 + 1 (1 <= m <= 2^31): the
\* remainder r < m so far and the n low bits of limb give n quotient bits and
\* the next remainder. 2 * r + bit >= m is tested without doubling r.
RECURSIVE LimbDiv(_, _, _, _)
LimbDiv(r, limb, mm1, n) ==
    IF n = 0 THEN [q |-> 0, r |-> r]
    ELSE LET bit == (limb \div Pow2(n - 1)) % 2
             take == IF bit = 1 THEN r >= mm1 - r ELSE r > mm1 - r
             r1 == IF take THEN (r - (mm1 - r)) - 1 + bit ELSE r + r + bit
             rest == LimbDiv(r1, limb, mm1, n - 1)
         IN  [q |-> (IF take THEN Pow2(n - 1) ELSE 0) + rest.q, r |-> rest.r]

\* (a << FRAC_BITS) // b of Python for a, b within 32 bits, b # 0: the floor
\* of the quotient. |a| * SCALE is divided by |b| limb by limb, and a
\* negative quotient is rounded away from zero when the division is inexact.
ShiftFloorDiv(a, b) ==
    LET A == IntAbs(a)
        mm1 == IF IntIsNeg(b) THEN 0 - (ToInt(b) + 1) ELSE ToInt(b) - 1
        top == IF mm1 = 2147483647 THEN [q |-> 0, r |-> A.hi]
               ELSE [q |-> A.hi \div (mm1 + 1), r |-> A.hi % (mm1 + 1)]
        mid == LimbDiv(top.r, A.lo, mm1, FRAC_BITS)
        low == LimbDiv(mid.r, 0, mm1, FRAC_BITS)
    IN  IF IntIsZero(a) \/ IntIsNeg(a) = IntIsNeg(b)
        THEN Int2(top.q * SCALE + mid.q, low.q)
        ELSE Carry((0 - top.q) * SCALE - mid.q,
                   (0 - low.q) - (IF low.r = 0 THEN 0 ELSE 1))

(***************************************************************************)
(* Fixed point Q16.16 (tools/reference_impl.py)                            *)
(*                                                                         *)
(* A Q16_16 object is its bits. An operator returns [raised, value]: the   *)
(* exception it raised, if any, or the object it built.                    *)
(***************************************************************************)
\* Q16_16.__init__(bits)
Q16_16(bits) == IF IntLess(INT32_MAX, bits) THEN IntSub(bits, TWO_32) ELSE bits

Returned(value) == [raised |-> "none", value |-> value]
Raised(exception) == [raised |-> exception, value |-> Int2(0, 0)]

__add__(self, other) == Returned(Q16_16(IntAdd(self, other)))
__sub__(self, other) == Returned(Q16_16(IntSub(self, other)))
__mul__(self, other) == Returned(Q16_16(MulShift(self, other)))

\* __truediv__ returning zero for a zero divisor.
__truediv___ZeroForZero(self, other) ==
    IF IntIsZero(other) THEN Returned(Q16_16(Int2(0, 0)))
    ELSE Returned(Q16_16(ShiftFloorDiv(self, other)))

__truediv__(self, other) ==
    IF IntIsZero(other) THEN Raised("ZeroDivisionError")
    ELSE Returned(Q16_16(ShiftFloorDiv(self, other)))

__neg__(self) == Returned(Q16_16(IntNeg(self)))
__abs__(self) == Returned(Q16_16(IntAbs(self)))

\* The operators of Q16_16 on objects.
Q16Ops == {"__init__", "__add__", "__sub__", "__mul__", "__truediv__", "__neg__", "__abs__"}

\* op applied to self (for __init__: to the integer bits) and other.
Q16Apply(op, self, other) ==
    CASE op = "__init__" -> Returned(Q16_16(self))
      [] op = "__add__" -> __add__(self, other)
      [] op = "__sub__" -> __sub__(self, other)
      [] op = "__mul__" -> __mul__(self, other)
      [] op = "__truediv__" -> __truediv__(self, other)
      [] op = "__neg__" -> __neg__(self)
      [] op = "__abs__" -> __abs__(self)

\* A call of an operator of Q16_16: the operator, its operands and, once it
\* has returned or raised, the outcome.
Q16Call(op, self, other) ==
    [called |-> FALSE, op |-> op, self |-> self, other |-> other,
     raised |-> "none", value |-> Int2(0, 0)]

IdleQ16 == Q16Call("__init__", Int2(0, 0), Int2(0, 0))

\* Bits of Q16_16 objects: the ends of the 32-bit range and the MaxBitsStep
\* values next to each, zero and the values next to it, and 0.5, 1.0, 1.5,
\* 2.0 and their negations.
BitsSamples ==
    {IntAdd(INT32_MIN, FromInt(k)) : k \in 0 .. MaxBitsStep}
        \cup {IntSub(INT32_MAX, FromInt(k)) : k \in 0 .. MaxBitsStep}
        \cup {FromInt(k) : k \in (0 - MaxBitsStep) .. MaxBitsStep}
        \cup {FromInt(k * (SCALE \div 2)) : k \in -4 .. 4}

\* Integers handed to Q16_16(bits): the bits above and the values up to
\* MaxBitsStep beyond each end of the 32-bit range, and one and two times
\* 2^32 beyond.
RawSamples ==
    BitsSamples
        \cup {IntAdd(INT32_MAX, FromInt(k)) : k \in 1 .. MaxBitsStep + 1}
        \cup {IntSub(INT32_MIN, FromInt(k)) : k \in 1 .. MaxBitsStep + 1}
        \cup {IntAdd(IntAdd(INT32_MAX, FromInt(1)), TWO_32), IntAdd(TWO_32, TWO_32),
              IntNeg(TWO_32), IntSub(INT32_MIN, TWO_32)}

\* (-2^31) / (-1 bit) is 2^47, the one raw result beyond the two limbs.
TwoLimbs(op, self, other) ==
    ~(op = "__truediv__" /\ self = INT32_MIN /\ other = FromInt(-1))

Q16Init ==
    fx \in {Q16Call(c[1], c[2], c[3]) :
                c \in {t \in (Q16Ops \ {"__init__"}) \X BitsSamples \X BitsSamples :
                          TwoLimbs(t[1], t[2], t[3])}}
            \cup {Q16Call("__init__", a, Int2(0, 0)) : a \in RawSamples}

Q16Step ==
    /\ ~fx.called
    /\ LET out == Q16Apply(fx.op, fx.self, fx.other)
       IN  fx' = [fx EXCEPT !.called = TRUE, !.raised = out.raised, !.value = out.value]

(***************************************************************************)
(* Field gradient (tools/reference_impl.py)                                *)
(*                                                                         *)
(* A Python value is tagged with its type: a Q16_16 object (its bits), an  *)
(* int, or a bound method.                                                 *)
(***************************************************************************)
Value(type, v) == [type |-> type, v |-> v]
\* Q16_ZERO = Q16_16.from_float(0.0)
Q16_ZERO == Int2(0, 0)

ComponentNames == {"load", "thermal", "power", "custom0", "custom1"}
MetaNames == {"timestamp", "source", "sequence"}
\* Field(): every component Q16_ZERO after __post_init__, the rest 0.
Q16Field ==
    [load |-> Q16_ZERO, thermal |-> Q16_ZERO, power |-> Q16_ZERO,
     custom0 |-> Q16_ZERO, custom1 |-> Q16_ZERO,
     timestamp |-> Int2(0, 0), source |-> Int2(0, 0), sequence |-> Int2(0, 0)]

\* getattr(field, name, default): a dataclass field, a method of the class,
\* or the default for a name the object does not have.
GetAttr(field, name, default) ==
    IF name \in ComponentNames THEN Value("Q16_16", field[name])
    ELSE IF name \in MetaNames THEN Value("int", field[name])
    ELSE IF name = "__post_init__" THEN Value("method", Int2(0, 0))
    ELSE default

\* a - b of Python: Q16_16.__sub__, int subtraction, or no such operator.
Minus(a, b) ==
    IF a.type = "Q16_16" /\ b.type = "Q16_16"
    THEN [raised |-> "none", value |-> Value("Q16_16", __sub__(a.v, b.v).value)]
    ELSE IF a.type = "int" /\ b.type = "int"
    THEN [raised |-> "none", value |-> Value("int", IntSub(a.v, b.v))]
    ELSE [raised |-> "TypeError", value |-> Value("None", Int2(0, 0))]

\* -a of Python: Q16_16.__neg__, int negation, or no such operator.
Negated(a) ==
    IF a.type = "Q16_16" THEN [raised |-> "none", value |-> Value("Q16_16", __neg__(a.v).value)]
    ELSE IF a.type = "int" THEN [raised |-> "none", value |-> Value("int", IntNeg(a.v))]
    ELSE [raised |-> "TypeError", value |-> Value("None", Int2(0, 0))]

\* gradient(my_field, neighbor_field, component)
gradient(my, neighbor_field, component) ==
    LET my_val == GetAttr(my, component, Value("Q16_16", Q16_ZERO))
        neighbor_val == GetAttr(neighbor_field, component, Value("Q16_16", Q16_ZERO))
    IN  Minus(neighbor_val, my_val)

\* Names a caller may pass as component: the components, the other fields of
\* Field, a method of Field and names Field does not have.
NameSamples == ComponentNames \cup MetaNames \cup {"__post_init__", "temperature", ""}

\* Field() with one attribute set.
FieldWith(name, v) ==
    IF name \in ComponentNames \cup MetaNames THEN [Q16Field EXCEPT ![name] = v]
    ELSE Q16Field

\* Values of the attribute name: bits of a Q16_16, or a small int.
AttrSamples(name) ==
    IF name \in ComponentNames THEN BitsSamples
    ELSE {FromInt(k) : k \in 0 .. MaxMeta}

\* Two fields a and b and a component name: gradient(a, b, component),
\* gradient(b, a, component) and the negation of the latter.
GradientCall(a, b, component) ==
    [called |-> FALSE, a |-> a, b |-> b, component |-> component,
     forward |-> Minus(Value("None", Int2(0, 0)), Value("None", Int2(0, 0))),
     backward |-> Minus(Value("None", Int2(0, 0)), Value("None", Int2(0, 0))),
     negated |-> Minus(Value("None", Int2(0, 0)), Value("None", Int2(0, 0)))]

IdleGradient == GradientCall(Q16Field, Q16Field, "load")

GradientInit ==
    grad \in UNION {{GradientCall(FieldWith(c, x), FieldWith(c, y), c) :
                        x \in AttrSamples(c), y \in AttrSamples(c)} : c \in NameSamples}

GradientStep ==
    /\ ~grad.called
    /\ LET forward == gradient(grad.a, grad.b, grad.component)
           backward == gradient(grad.b, grad.a, grad.component)
       IN  grad' = [grad EXCEPT !.called = TRUE,
                                !.forward = forward,
                                !.backward = backward,
                                !.negated = IF backward.raised = "none"
                                            THEN Negated(backward.value)
                                            ELSE backward]

(***************************************************************************)
(* Field decay (tools/reference_impl.py)                                   *)
(*                                                                         *)
(* A float is kept as the exact fraction it approximates:                  *)
(* [mant, num, den] stands for (mant / SCALE) * (num / den), mant a wide   *)
(* integer and 0 <= num <= den.  The doubles of the source lie within      *)
(* 2^-50, relatively, of these fractions.                                  *)
(***************************************************************************)
\* apply_decay(value, elapsed_us, tau_us=100_000)
tau_us_default == 100000

Float(mant, num, den) == [mant |-> mant, num |-> num, den |-> den]

\* to_float dividing by 2^15, the scale of a Q15 value.
to_float_Q15(a) == Float(IntAdd(a, a), 1, 1)

\* Q16_16.to_float: self.bits / self.SCALE
to_float(a) == Float(a, 1, 1)

\* value.to_float() * factor, factor a fraction in 0 .. 1
FloatTimes(f, factor) == Float(f.mant, factor.num, factor.den)

\* Digit n of the magnitude x in base 4, 0 <= x <= 2^31.
DigitOf(x, n) == IF 2 * n >= FRAC_BITS THEN (x.hi \div Pow2(2 * n - FRAC_BITS)) % 4 ELSE (x.lo \div Pow2(2 * n)) % 4

\* Quotient q and remainder r of (x with the digits below digit n dropped)
\* * num by den, for 0 <= num <= den: one digit of x at a time, from the top.
RECURSIVE MulDivDigits(_, _, _, _)
MulDivDigits(x, n, num, den) ==
    IF n >= FRAC_BITS THEN [q |-> Int2(0, 0), r |-> 0]
    ELSE LET above == MulDivDigits(x, n + 1, num, den)
             r4 == 4 * above.r + DigitOf(x, n) * num
         IN  [q |-> Carry(4 * above.q.hi, 4 * above.q.lo + r4 \div den), r |-> r4 % den]

\* round(x * num / den) of Python 3 for x >= 0: to the nearest integer, a tie
\* to the even one.
RoundHalfEven(x, num, den) ==
    LET d == MulDivDigits(x, 0, num, den)
        up == \/ 2 * d.r > den
              \/ 2 * d.r = den /\ d.q.lo % 2 = 1
    IN  IF up THEN IntAdd(d.q, FromInt(1)) ELSE d.q

\* Q16_16.from_float(f): cls(int(round(f * cls.SCALE))); round is symmetric
\* about zero.
from_float(f) ==
    LET magnitude == RoundHalfEven(IntAbs(f.mant), f.num, f.den)
    IN  Q16_16(IF IntIsNeg(f.mant) THEN IntNeg(magnitude) ELSE magnitude)

Fraction01(num, den) == [num |-> IF num < 0 THEN 0 ELSE num, den |-> den]

\* The factor of apply_decay for t > 0, before max(0.0, factor):
\*   t < tau    : 1.0 - (t / tau) * 0.632
\*   t < tau * 2: 0.368 - ((t - tau) / tau) * 0.233
\*   t < tau * 3: 0.135 - ((t - tau * 2) / tau) * 0.086
\*   t < tau * 5: 0.049 * (1.0 - (t - tau * 3) / (tau * 2))
\*   else       : 0.0
\* and max(0.0, factor) after it.
DecaySegments(t, tau) ==
    IF t < tau THEN Fraction01(1000 * tau - 632 * t, 1000 * tau)
    ELSE IF t < tau * 2 THEN Fraction01(368 * tau - 233 * (t - tau), 1000 * tau)
    ELSE IF t < tau * 3 THEN Fraction01(135 * tau - 86 * (t - tau * 2), 1000 * tau)
    ELSE IF t < tau * 5 THEN Fraction01(49 * (tau * 2 - (t - tau * 3)), 1000 * (tau * 2))
    ELSE Fraction01(0, 1)

\* apply_decay with 0.368 of the second segment mistyped as 0.386.
apply_decay_Mistyped(value, elapsed_us, tau_us) ==
    IF elapsed_us <= 0 THEN value
    ELSE IF tau_us <= elapsed_us /\ elapsed_us < tau_us * 2
    THEN from_float(FloatTimes(to_float(value), Fraction01(386 * tau_us - 233 * (elapsed_us - tau_us), 1000 * tau_us)))
    ELSE from_float(FloatTimes(to_float(value), DecaySegments(elapsed_us, tau_us)))

\* apply_decay(value, elapsed_us, tau_us): the bits of the Q16_16 returned.
apply_decay(value, elapsed_us, tau_us) ==
    IF elapsed_us <= 0 THEN value
    ELSE from_float(FloatTimes(to_float(value), DecaySegments(elapsed_us, tau_us)))

\* apply_decay on one value at two elapsed times, elapsed_us before later_us.
DecayCall(value, elapsed_us, later_us, tau_us) ==
    [called |-> FALSE, value |-> value, elapsed_us |-> elapsed_us,
     later_us |-> later_us, tau_us |-> tau_us,
     result |-> Int2(0, 0), later_result |-> Int2(0, 0)]

IdleDecay == DecayCall(Int2(0, 0), 0, 0, tau_us_default)

\* tau_us: the default, and a tau of a few microseconds.
TauSamples == {4, tau_us_default}

\* Elapsed times within a microsecond of a multiple of half a tau, up to
\* MaxDecaySteps halves, and one microsecond before zero.
DecayElapsedSamples(tau) == {k * (tau \div 2) + d : k \in 0 .. MaxDecaySteps, d \in {0 - 1, 0, 1}}

DecayInit ==
    \E tau \in TauSamples, v \in BitsSamples :
        \E t1 \in DecayElapsedSamples(tau), t2 \in DecayElapsedSamples(tau) :
            /\ t1 < t2
            /\ dec = DecayCall(v, t1, t2, tau)

DecayStep ==
    /\ ~dec.called
    /\ dec' = [dec EXCEPT !.called = TRUE,
                          !.result = apply_decay(dec.value, dec.elapsed_us, dec.tau_us),
                          !.later_result = apply_decay(dec.value, dec.later_us, dec.tau_us)]

(***************************************************************************)
(* Calls of Field.decay (sim/multi_module.py)                              *)
(***************************************************************************)
\* math.exp(x) raises OverflowError for x above 709.78..., the logarithm of
\* the largest double: -elapsed / FIELD_DECAY_TAU_US is above it from here on.
ExpOverflowElapsed == 70978272

\* Field.decay(now) on field: raised is the exception that left it ("none":
\* it returned result); after is field once the call is over.
FieldDecayCall(field, now) ==
    [called |-> FALSE, field |-> field, now |-> now,
     raised |-> "none", result |-> DefaultField, after |-> field]

IdleFieldDecay == FieldDecayCall(DefaultField, 0)

\* Fields published at 0, at tau, and at a time later than every sampled now by
\* more than the exponential can take.
FieldDecaySamples ==
    {Field(l, th, pw, ts, Self) :
        l \in {0, LoadScale \div 2, LoadScale},
        th \in ThermalSamples,
        pw \in {0, (8 * LoadScale) \div 10},
        ts \in {0, FIELD_DECAY_TAU_US,
               ExpOverflowElapsed + MaxDecaySteps * (FIELD_DECAY_TAU_US \div 2)}}

\* now: the multiples of half a tau up to MaxDecaySteps halves.
FieldNowSamples == {k * (FIELD_DECAY_TAU_US \div 2) : k \in 0 .. MaxDecaySteps}

FieldDecayInit ==
    fdec \in {FieldDecayCall(f, now) : f \in FieldDecaySamples, now \in FieldNowSamples}

FieldDecayStep ==
    /\ ~fdec.called
    /\ fdec' = IF fdec.field.timestamp - fdec.now >= ExpOverflowElapsed
               THEN [fdec EXCEPT !.called = TRUE, !.raised = "OverflowError"]
               ELSE [fdec EXCEPT !.called = TRUE, !.result = decay(fdec.field, fdec.now)]

(***************************************************************************)
(* Consensus (tools/reference_impl.py)                                     *)
(***************************************************************************)
\* A threshold or a ratio p/q, q > 0. The floats of the code are the correctly
\* rounded values of these fractions, and rounding keeps the order of two
\* fractions of small integers, so the floats compare as the fractions do.
Fraction(p, q) == [num |-> p, den |-> q]
AtLeast(a, b) == a.num * b.den >= b.num * a.den

\* quorum_check without the guard for an empty electorate, an empty ratio read as 0.
quorum_check_NoGuard(yes_count, total_voters, threshold) ==
    IF AtLeast(Fraction(IF total_voters = 0 THEN 0 ELSE yes_count,
                        IF total_voters = 0 THEN 1 ELSE total_voters), threshold)
    THEN "Approved" ELSE "Rejected"

\* quorum_check with an exclusive boundary.
quorum_check_Strict(yes_count, total_voters, threshold) ==
    IF total_voters = 0 THEN "Rejected"
    ELSE IF ~AtLeast(threshold, Fraction(yes_count, total_voters))
    THEN "Approved" ELSE "Rejected"

\* quorum_check leaving a vote that has not reached its threshold open.
quorum_check_Pending(yes_count, total_voters, threshold) ==
    IF total_voters = 0 THEN "Rejected"
    ELSE IF AtLeast(Fraction(yes_count, total_voters), threshold)
    THEN "Approved" ELSE "Pending"

quorum_check(yes_count, total_voters, threshold) ==
    IF total_voters = 0 THEN "Rejected"
    ELSE LET ratio == Fraction(yes_count, total_voters)
         IN  IF AtLeast(ratio, threshold) THEN "Approved" ELSE "Rejected"

\* A call of quorum_check: its arguments and, once it has returned, its result.
QuorumCall(yes_count, total_voters, threshold) ==
    [called |-> FALSE, yes_count |-> yes_count, total_voters |-> total_voters,
     threshold |-> threshold, result |-> "none"]

IdleQuorum == QuorumCall(0, 0, Fraction(0, 10))

\* threshold = 0.0, 0.1, ..., 1.0
ThresholdSamples == {Fraction(k, 10) : k \in 0 .. 10}

QuorumInit ==
    quorum \in {QuorumCall(y, t, th) : y \in 0 .. MaxVoters, t \in 0 .. MaxVoters,
                                       th \in ThresholdSamples}

QuorumCheck ==
    /\ ~quorum.called
    /\ quorum' = [quorum EXCEPT !.called = TRUE,
                                !.result = quorum_check(quorum.yes_count,
                                                        quorum.total_voters,
                                                        quorum.threshold)]

\* Python floats are IEEE 754 doubles: 52 fraction bits after the leading one.
DoubleFractionBits == 52

\* 2^n mod q
RECURSIVE Pow2Mod(_, _)
Pow2Mod(n, q) == IF n = 0 THEN 1 % q ELSE (2 * Pow2Mod(n - 1, q)) % q

\* For 0 < p/q <= 1: the s with 2^-s <= p/q < 2^(1-s), the binary exponent of
\* the float p/q negated.
RECURSIVE NegExponent(_, _, _)
NegExponent(p, q, s) == IF p * Pow2(s) >= q THEN s ELSE NegExponent(p, q, s + 1)

\* For n >= 1: the E with 2^E <= n < 2^(E+1).
RECURSIVE Exponent(_, _)
Exponent(n, E) == IF Pow2(E + 1) > n THEN E ELSE Exponent(n, E + 1)

\* The float written p/q (0 < p/q <= 1) is the double nearest to p/q, ties to
\* the even mantissa: it is p/q + d/q units in its last place, and this is d.
\* With N = DoubleFractionBits + s the mantissa is p * 2^N / q rounded, so the
\* remainder of p * 2^N by q decides the direction.
FloatError(p, q) ==
    LET N == DoubleFractionBits + NegExponent(p, q, 0)
        r == (p * Pow2Mod(N, q)) % q
        r2 == (p * Pow2Mod(N, 2 * q)) % (2 * q)
        floorIsEven == ((r2 - r) \div q) % 2 = 0
    IN  IF 2 * r < q THEN 0 - r
        ELSE IF 2 * r > q THEN q - r
        ELSE IF floorIsEven THEN 0 - r ELSE q - r

\* ceiling(a / b) of integers a >= 0, b > 0
CeilDiv(a, b) == (a + b - 1) \div b

\* math.ceil(total_voters * threshold) in double arithmetic, total_voters a
\* small integer and threshold the float p/q in [0, 1]. When total * p / q is
\* not an integer the errors of the float (far below 1/q) do not move the
\* ceiling. When it is an integer n, the exact product n + total * d/q ulp is
\* rounded to a double: it ends above n, and the ceiling at n + 1, exactly
\* when the excess is more than half the spacing 2^(E - 52) of doubles at n
\* (a tie goes to n, whose mantissa is even).
CeilOfFloatProduct(total, p, q) ==
    IF total * p = 0 THEN 0
    ELSE IF (total * p) % q # 0 THEN CeilDiv(total * p, q)
    ELSE LET n == (total * p) \div q
             s == NegExponent(p, q, 0)
             d == FloatError(p, q)
         IN  IF total * d * 2 > q * Pow2(Exponent(n, 0) + s) THEN n + 1 ELSE n

threshold_votes_needed(total_voters, threshold) ==
    CeilOfFloatProduct(total_voters, threshold.num, threshold.den)

\* A vote in progress: quorum_check on the votes so far and the short-circuit
\* point threshold_votes_needed for the same electorate and threshold.
VotesCall(yes_count, total_voters, threshold) ==
    [called |-> FALSE, yes_count |-> yes_count, total_voters |-> total_voters,
     threshold |-> threshold, needed |-> -1, result |-> "none"]

IdleVotes == VotesCall(0, 0, Fraction(0, 10))

\* threshold = 0.0, 0.1, ..., 1.0 and 0.00, 0.04, ..., 1.00
VoteThresholdSamples == ThresholdSamples \cup {Fraction(k, 25) : k \in 0 .. 25}

VotesInit ==
    votes \in {VotesCall(y, t, th) : y \in 0 .. MaxElectorate, t \in 0 .. MaxElectorate,
                                     th \in VoteThresholdSamples}

VotesStep ==
    /\ ~votes.called
    /\ votes' = [votes EXCEPT !.called = TRUE,
                              !.needed = threshold_votes_needed(votes.total_voters,
                                                                votes.threshold),
                              !.result = quorum_check(votes.yes_count,
                                                      votes.total_voters,
                                                      votes.threshold)]

(***************************************************************************)
(* Test vectors (tools/reference_impl.py)                                  *)
(*                                                                         *)
(* A value of a JSON document is tagged with its type: "absent" for a key  *)
(* the dict does not have, "number" (a finite int or float, kept as the    *)
(* fraction Float), "inf" and "nan" (json.load reads Infinity and NaN),    *)
(* "str", "null", "list". A runner returns [raised, doc]: the exception    *)
(* that left it, if any, or the result document.                           *)
(***************************************************************************)
Missing == Value("absent", 0)

\* The keys of "input" and "setup" the runners read; type is "dict" for a
\* JSON object and the type of the value otherwise.
Input(type) ==
    [type |-> type, float |-> Missing, votes |-> Missing, total_voters |-> Missing,
     threshold |-> Missing, now |-> Missing, my_load |-> Missing,
     neighbor_load |-> Missing, component |-> Missing]

Setup == [propose_threshold |-> Missing, received_now |-> Missing]

Vector(module, function, input, setup) ==
    [module |-> module, function |-> function, input |-> input, setup |-> setup]

\* The result document: "return" and the outputs of the functions.
Doc(return) ==
    [return |-> return, error |-> "none", result |-> "none", health |-> "none",
     fixed_bits |-> Int2(0, 0), round_trip |-> to_float(Int2(0, 0)),
     gradient |-> to_float(Int2(0, 0))]

Document(doc) == [raised |-> "none", doc |-> doc]
Failed(exception) == [raised |-> exception, doc |-> Doc("none")]

\* d.get(key, default) on the value d of "input": a dict has the method, no
\* other JSON value does.
Get(d, key, default) ==
    IF d.type # "dict" THEN [raised |-> "AttributeError", value |-> default]
    ELSE [raised |-> "none", value |-> IF d[key].type = "absent" THEN default ELSE d[key]]

\* Q16_16.from_float(f) on a JSON value: f * cls.SCALE and round(...) accept
\* numbers only, round raises OverflowError on an infinity and ValueError
\* on a NaN.
from_float_value(f) ==
    IF f.type = "number" THEN Returned(from_float(f.v))
    ELSE IF f.type = "inf" THEN Raised("OverflowError")
    ELSE IF f.type = "nan" THEN Raised("ValueError")
    ELSE Raised("TypeError")

\* run_types_test(function, input_data, vector)
run_types_test(function, input_data) ==
    IF function = "q15_convert"
    THEN LET float_val == Get(input_data, "float", Value("number", to_float(Int2(0, 0))))
             fixed == from_float_value(float_val.value)
         IN  IF float_val.raised # "none" THEN Failed(float_val.raised)
             ELSE IF fixed.raised # "none" THEN Failed(fixed.raised)
             ELSE Document([Doc("OK") EXCEPT !.fixed_bits = fixed.value,
                                             !.round_trip = to_float(fixed.value)])
    ELSE Document(Doc("NotImplemented"))

\* sum(1 for v in votes if v.get("vote") == "Yes"): votes is the list of the
\* "vote" values of its elements.
RECURSIVE CountYes(_)
CountYes(vote_list) ==
    IF vote_list = << >> THEN 0
    ELSE (IF Head(vote_list) = "Yes" THEN 1 ELSE 0) + CountYes(Tail(vote_list))

\* quorum_check(yes_count, total_voters, threshold) on JSON values: the
\* comparison with 0 accepts anything, the division numbers only, and >=
\* numbers only.
quorum_check_value(yes_count, total_voters, threshold) ==
    IF total_voters.type = "int" /\ total_voters.v = 0 THEN [raised |-> "none", result |-> "Rejected"]
    ELSE IF total_voters.type # "int" \/ threshold.type # "ratio"
    THEN [raised |-> "TypeError", result |-> "none"]
    ELSE [raised |-> "none", result |-> quorum_check(yes_count, total_voters.v, threshold.v)]

\* run_consensus_test(function, input_data, vector). An element of votes
\* that is no dict ("NotADict") has no get.
run_consensus_test(function, input_data, setup) ==
    IF function = "consensus_vote"
    THEN LET votes_got == Get(input_data, "votes", Value("list", << >>))
             vote_list == votes_got.value
             total_voters ==
                 IF input_data.total_voters.type = "absent"
                 THEN Value("int", Len(vote_list.v))
                 ELSE input_data.total_voters
             threshold ==
                 IF setup.propose_threshold.type # "absent" THEN setup.propose_threshold
                 ELSE IF input_data.threshold.type # "absent" THEN input_data.threshold
                 ELSE Value("ratio", Fraction(5, 10))
         IN  IF votes_got.raised # "none" THEN Failed(votes_got.raised)
             ELSE IF vote_list.type # "list" THEN Failed("TypeError")
             ELSE IF \E i \in 1 .. Len(vote_list.v) : vote_list.v[i] = "NotADict"
             THEN Failed("AttributeError")
             ELSE LET checked == quorum_check_value(CountYes(vote_list.v), total_voters, threshold)
                  IN  IF checked.raised # "none" THEN Failed(checked.raised)
                      ELSE Document([Doc("OK") EXCEPT !.result = checked.result])
    ELSE Document(Doc("NotImplemented"))

\* run_heartbeat_test(function, input_data, vector): now - last_seen is
\* defined on numbers only.
run_heartbeat_test(function, input_data, setup) ==
    IF function = "heartbeat_tick"
    THEN LET now == Get(input_data, "now", Value("int", 0))
             last_seen == IF setup.received_now.type = "absent" THEN Value("int", 0)
                          ELSE setup.received_now
         IN  IF now.raised # "none" THEN Failed(now.raised)
             ELSE IF now.value.type # "int" \/ last_seen.type # "int" THEN Failed("TypeError")
             ELSE Document([Doc("OK") EXCEPT !.health =
                                heartbeat_state_transition(
                                    "Alive", now.value.v - last_seen.v,
                                    HEARTBEAT_PERIOD_US, HEARTBEAT_TIMEOUT_COUNT, FALSE)])
    ELSE IF function = "heartbeat_received"
    THEN Document([Doc("OK") EXCEPT !.health = "Alive"])
    ELSE Document(Doc("NotImplemented"))

\* run_field_test(function, input_data, vector), my_field and neighbor_field
\* holding at most the key "load": component.lower() is a method of str, and
\* grad.to_float() one of Q16_16.
run_field_test(function, input_data) ==
    IF function = "field_gradient"
    THEN LET zero == Value("number", to_float(Int2(0, 0)))
             component == Get(input_data, "component", Value("str", "load"))
             my_load == from_float_value(Get(input_data, "my_load", zero).value)
             neighbor_load == from_float_value(Get(input_data, "neighbor_load", zero).value)
             grad_val == gradient([Q16Field EXCEPT !.load = my_load.value],
                                  [Q16Field EXCEPT !.load = neighbor_load.value],
                                  component.value.v)
         IN  IF component.raised # "none" THEN Failed(component.raised)
             ELSE IF component.value.type # "str" THEN Failed("AttributeError")
             ELSE IF my_load.raised # "none" THEN Failed(my_load.raised)
             ELSE IF neighbor_load.raised # "none" THEN Failed(neighbor_load.raised)
             ELSE IF grad_val.raised # "none" THEN Failed(grad_val.raised)
             ELSE IF grad_val.value.type # "Q16_16" THEN Failed("AttributeError")
             ELSE Document([Doc("OK") EXCEPT !.gradient = to_float(grad_val.value.v)])
    ELSE Document(Doc("NotImplemented"))

\* run_topology_test(function, input_data, vector)
run_topology_test(function, input_data) == Document(Doc("NotImplemented"))

\* The module of the vector handed to its runner.
Dispatch(vector) ==
    IF vector.module = "field" THEN run_field_test(vector.function, vector.input)
    ELSE IF vector.module = "consensus"
    THEN run_consensus_test(vector.function, vector.input, vector.setup)
    ELSE IF vector.module = "heartbeat"
    THEN run_heartbeat_test(vector.function, vector.input, vector.setup)
    ELSE IF vector.module = "types" THEN run_types_test(vector.function, vector.input)
    ELSE IF vector.module = "topology" THEN run_topology_test(vector.function, vector.input)
    ELSE Document(Doc("NotImplemented"))

\* run_test_vector without the except clause.
run_test_vector_Unguarded(vector) == Dispatch(vector)

\* run_test_vector(vector): except Exception as e: return {"return": f"Error: {e}"}
run_test_vector(vector) ==
    LET ran == Dispatch(vector)
    IN  IF ran.raised # "none" THEN Document([Doc("Error") EXCEPT !.error = ran.raised])
        ELSE ran

\* A call of run_test_vector: the vector and, once it has returned or raised,
\* the exception that reached the caller and the result document.
TvCall(vector) == [called |-> FALSE, vector |-> vector, raised |-> "none", doc |-> Doc("none")]

IdleVector == TvCall(Vector("unknown", "unknown", Input("dict"), Setup))

\* "float": the bits of BitsSamples and 2^31, the first value beyond the
\* range, whole and in parts of a bit; an infinity, a NaN, a string, null.
FloatValueSamples ==
    {Value("number", Float(m, n, d)) :
        m \in BitsSamples \cup {IntNeg(INT32_MIN)},
        n \in 1 .. MaxUlpParts, d \in 1 .. MaxUlpParts}

OtherValueSamples == {Value("inf", 0), Value("nan", 0), Value("str", 0), Value("null", 0)}

\* "votes": lists of up to MaxVotes votes.
VoteLists == UNION {[1 .. n -> {"Yes", "No", "Abstain"}] : n \in 0 .. MaxVotes}

TypesVectors ==
    \/ \E f \in FloatValueSamples :
           /\ f.v.num <= f.v.den
           /\ tv = TvCall(Vector("types", "q15_convert", [Input("dict") EXCEPT !.float = f], Setup))
    \/ \E f \in OtherValueSamples \cup {Missing} :
           tv = TvCall(Vector("types", "q15_convert", [Input("dict") EXCEPT !.float = f], Setup))
    \/ \E fn \in {"q15_convert", "q15_mul"}, t \in {"list", "null"} :
           tv = TvCall(Vector("types", fn, Input(t), Setup))

ConsensusVectors ==
    \/ \E l \in VoteLists :
       \E total \in {Missing, Value("str", 0)} \cup {Value("int", n) : n \in 0 .. MaxVotes + 1} :
       \E th \in {Missing, Value("str", 0)} \cup {Value("ratio", Fraction(k, 10)) : k \in {0, 3, 5, 7, 10}} :
       \E pth \in {Missing, Value("ratio", Fraction(6, 10))} :
           tv = TvCall(Vector("consensus", "consensus_vote",
                              [Input("dict") EXCEPT !.votes = Value("list", l),
                                                    !.total_voters = total,
                                                    !.threshold = th],
                              [Setup EXCEPT !.propose_threshold = pth]))
    \/ \E v \in {Missing, Value("null", 0), Value("list", <<"Yes", "NotADict">>)} :
       \E total \in {Missing, Value("int", 2)} :
           tv = TvCall(Vector("consensus", "consensus_vote",
                              [Input("dict") EXCEPT !.votes = v, !.total_voters = total], Setup))
    \/ \E fn \in {"consensus_vote", "consensus_propose"}, t \in {"list", "null"} :
           tv = TvCall(Vector("consensus", fn, Input(t), Setup))

HeartbeatVectors ==
    \/ \E now \in {Missing, Value("str", 0)} \cup {Value("int", e) : e \in ElapsedSamples} :
       \E seen \in {Missing, Value("str", 0), Value("int", 0), Value("int", HEARTBEAT_PERIOD_US)} :
           tv = TvCall(Vector("heartbeat", "heartbeat_tick",
                              [Input("dict") EXCEPT !.now = now],
                              [Setup EXCEPT !.received_now = seen]))
    \/ \E fn \in {"heartbeat_tick", "heartbeat_received", "heartbeat_init"}, t \in {"dict", "list"} :
           tv = TvCall(Vector("heartbeat", fn, Input(t), Setup))

FieldVectors ==
    \/ \E c \in {Missing, Value("int", 0)} \cup {Value("str", n) : n \in NameSamples} :
       \E a \in {Missing, Value("nan", 0)} \cup {Value("number", to_float(FromInt(k * (SCALE \div 2)))) : k \in -1 .. 2} :
       \E b \in {Missing, Value("str", 0)} \cup {Value("number", to_float(FromInt(k * (SCALE \div 2)))) : k \in -1 .. 2} :
           tv = TvCall(Vector("field", "field_gradient",
                              [Input("dict") EXCEPT !.component = c, !.my_load = a,
                                                    !.neighbor_load = b], Setup))
    \/ \E fn \in {"field_gradient", "field_publish"}, t \in {"list", "null"} :
           tv = TvCall(Vector("field", fn, Input(t), Setup))

OtherVectors ==
    \E m \in {"topology", "unknown", "auth"}, fn \in {"topology_elect", "unknown"}, t \in {"dict", "list"} :
        tv = TvCall(Vector(m, fn, Input(t), Setup))

VectorInit == TypesVectors \/ ConsensusVectors \/ HeartbeatVectors \/ FieldVectors \/ OtherVectors

\* The caller of run_test_vector: main prints the document it returns.
TestVectorStep ==
    /\ ~tv.called
    /\ LET out == run_test_vector(tv.vector)
       IN  tv' = [tv EXCEPT !.called = TRUE, !.raised = out.raised, !.doc = out.doc]

\* Module(id, position): state INIT, no neighbors, nothing known, load 0.0 and
\* the default Field. Topology and load are kept for the modules in operated,
\* the published field for every module of the registry (tick reads it).
ModuleInit(operated) ==
    /\ state = [m \in operated |-> "INIT"]
    /\ neighbors = [m \in operated |-> << >>]
    /\ known_modules = [m \in operated |-> << >>]
    /\ load = [m \in operated |-> 0]
    /\ my_field = [m \in ModuleIds |-> DefaultField]
    /\ outcome = Outcome("init", Self, "none", 0, FALSE)

Init ==
    /\ all_modules \in RegistryOrders
    /\ ModuleInit({Self})
    /\ hb = IdleHb
    /\ quorum = IdleQuorum
    /\ votes = IdleVotes
    /\ fx = IdleQ16
    /\ grad = IdleGradient
    /\ dec = IdleDecay
    /\ fdec = IdleFieldDecay
    /\ twin = IdleTwin
    /\ sim = IdleSim
    /\ tv = IdleVector

Start == start(Self) /\ UNCHANGED <<hb, quorum, votes, fx, grad, dec, fdec, twin, sim, tv>>

OnDiscovery ==
    /\ \E s \in Announcers(Self) : on_discovery(Self, s, PositionOf(s))
    /\ UNCHANGED <<hb, quorum, votes, fx, grad, dec, fdec, twin, sim, tv>>

Tick ==
    /\ \E now \in NowSamples, th \in ThermalSamples : tick(Self, now, th)
    /\ UNCHANGED <<hb, quorum, votes, fx, grad, dec, fdec, twin, sim, tv>>

Leave ==
    /\ \E id \in ModuleIds : ModuleLeaves(id)
    /\ UNCHANGED <<hb, quorum, votes, fx, grad, dec, fdec, twin, sim, tv>>

Next == Start \/ OnDiscovery \/ Tick \/ Leave

Spec == Init /\ [][Next]_vars

(***************************************************************************)
(* SpecDiscovery: announcements only, every module live.                   *)
(***************************************************************************)
DiscoveryInit ==
    /\ all_modules = Ascending
    /\ ModuleInit({Self})
    /\ hb = IdleHb
    /\ quorum = IdleQuorum
    /\ votes = IdleVotes
    /\ fx = IdleQ16
    /\ grad = IdleGradient
    /\ dec = IdleDecay
    /\ fdec = IdleFieldDecay
    /\ twin = IdleTwin
    /\ sim = IdleSim
    /\ tv = IdleVector

AnyDiscovery ==
    /\ \E s \in WindowAnnouncers(Self) : on_discovery(Self, s, PositionOf(s))
    /\ UNCHANGED <<hb, quorum, votes, fx, grad, dec, fdec, twin, sim, tv>>

DiscoveryNext == AnyDiscovery

SpecDiscovery == DiscoveryInit /\ [][DiscoveryNext]_vars

(***************************************************************************)
(* SpecHealth: calls of heartbeat_state_transition.                        *)
(***************************************************************************)
HealthSpecInit ==
    /\ all_modules = Ascending
    /\ ModuleInit({Self})
    /\ HealthInit
    /\ quorum = IdleQuorum
    /\ votes = IdleVotes
    /\ fx = IdleQ16
    /\ grad = IdleGradient
    /\ dec = IdleDecay
    /\ fdec = IdleFieldDecay
    /\ twin = IdleTwin
    /\ sim = IdleSim
    /\ tv = IdleVector

Heartbeat == HeartbeatStep /\ UNCHANGED <<moduleVars, quorum, votes, fx, grad, dec, fdec, twin, sim, tv>>

HealthNext == Heartbeat

SpecHealth == HealthSpecInit /\ [][HealthNext]_vars

(***************************************************************************)
(* SpecQuorum: calls of quorum_check.                                      *)
(***************************************************************************)
QuorumSpecInit ==
    /\ all_modules = Ascending
    /\ ModuleInit({Self})
    /\ hb = IdleHb
    /\ QuorumInit
    /\ votes = IdleVotes
    /\ fx = IdleQ16
    /\ grad = IdleGradient
    /\ dec = IdleDecay
    /\ fdec = IdleFieldDecay
    /\ twin = IdleTwin
    /\ sim = IdleSim
    /\ tv = IdleVector

Quorum == QuorumCheck /\ UNCHANGED <<moduleVars, hb, votes, fx, grad, dec, fdec, twin, sim, tv>>

QuorumNext == Quorum

SpecQuorum == QuorumSpecInit /\ [][QuorumNext]_vars

(***************************************************************************)
(* SpecVotes: quorum_check and threshold_votes_needed on the same vote.    *)
(***************************************************************************)
VotesSpecInit ==
    /\ all_modules = Ascending
    /\ ModuleInit({Self})
    /\ hb = IdleHb
    /\ quorum = IdleQuorum
    /\ VotesInit
    /\ fx = IdleQ16
    /\ grad = IdleGradient
    /\ dec = IdleDecay
    /\ fdec = IdleFieldDecay
    /\ twin = IdleTwin
    /\ sim = IdleSim
    /\ tv = IdleVector

Votes == VotesStep /\ UNCHANGED <<moduleVars, hb, quorum, fx, grad, dec, fdec, twin, sim, tv>>

VotesNext == Votes

SpecVotes == VotesSpecInit /\ [][VotesNext]_vars

(***************************************************************************)
(* SpecFixed: calls of the operators of Q16_16.                            *)
(***************************************************************************)
FixedSpecInit ==
    /\ all_modules = Ascending
    /\ ModuleInit({Self})
    /\ hb = IdleHb
    /\ quorum = IdleQuorum
    /\ votes = IdleVotes
    /\ Q16Init
    /\ grad = IdleGradient
    /\ dec = IdleDecay
    /\ fdec = IdleFieldDecay
    /\ twin = IdleTwin
    /\ sim = IdleSim
    /\ tv = IdleVector

Fixed == Q16Step /\ UNCHANGED <<moduleVars, hb, quorum, votes, grad, dec, fdec, twin, sim, tv>>

FixedNext == Fixed

SpecFixed == FixedSpecInit /\ [][FixedNext]_vars

(***************************************************************************)
(* SpecGradient: gradient on two fields, both ways round.                  *)
(***************************************************************************)
GradientSpecInit ==
    /\ all_modules = Ascending
    /\ ModuleInit({Self})
    /\ hb = IdleHb
    /\ quorum = IdleQuorum
    /\ votes = IdleVotes
    /\ fx = IdleQ16
    /\ GradientInit
    /\ dec = IdleDecay
    /\ fdec = IdleFieldDecay
    /\ twin = IdleTwin
    /\ sim = IdleSim
    /\ tv = IdleVector

Gradient == GradientStep /\ UNCHANGED <<moduleVars, hb, quorum, votes, fx, dec, fdec, twin, sim, tv>>

GradientNext == Gradient

SpecGradient == GradientSpecInit /\ [][GradientNext]_vars

(***************************************************************************)
(* SpecDecay: calls of apply_decay and of Field.decay.                     *)
(***************************************************************************)
DecaySpecInit ==
    /\ all_modules = Ascending
    /\ ModuleInit({Self})
    /\ hb = IdleHb
    /\ quorum = IdleQuorum
    /\ votes = IdleVotes
    /\ fx = IdleQ16
    /\ grad = IdleGradient
    /\ \/ DecayInit /\ fdec = IdleFieldDecay
       \/ FieldDecayInit /\ dec = IdleDecay
    /\ twin = IdleTwin
    /\ sim = IdleSim
    /\ tv = IdleVector

ApplyDecay == DecayStep /\ UNCHANGED <<moduleVars, hb, quorum, votes, fx, grad, fdec, twin, sim, tv>>

FieldDecay == FieldDecayStep /\ UNCHANGED <<moduleVars, hb, quorum, votes, fx, grad, dec, twin, sim, tv>>

DecayNext == ApplyDecay \/ FieldDecay

SpecDecay == DecaySpecInit /\ [][DecayNext]_vars

(***************************************************************************)
(* SpecTick: one tick of a Module, executed twice from the same state.     *)
(***************************************************************************)
TickSpecInit ==
    /\ TickInit
    /\ hb = IdleHb
    /\ quorum = IdleQuorum
    /\ votes = IdleVotes
    /\ fx = IdleQ16
    /\ grad = IdleGradient
    /\ dec = IdleDecay
    /\ fdec = IdleFieldDecay
    /\ sim = IdleSim
    /\ tv = IdleVector

TwoTicks == TickTwice /\ UNCHANGED <<hb, quorum, votes, fx, grad, dec, fdec, sim, tv>>

TickNext == TwoTicks

SpecTick == TickSpecInit /\ [][TickNext]_vars

(***************************************************************************)
(* SpecPair: Simulator.run on two modules.                                 *)
(***************************************************************************)
PairSpecInit ==
    /\ PairInit
    /\ hb = IdleHb
    /\ quorum = IdleQuorum
    /\ votes = IdleVotes
    /\ fx = IdleQ16
    /\ grad = IdleGradient
    /\ dec = IdleDecay
    /\ fdec = IdleFieldDecay
    /\ twin = IdleTwin
    /\ tv = IdleVector

PairStart ==
    /\ \E m \in PairIds : RunStart(m)
    /\ UNCHANGED <<hb, quorum, votes, fx, grad, dec, fdec, twin, tv>>

PairDiscovery ==
    /\ \E m \in PairIds : RunDiscovery(m)
    /\ UNCHANGED <<hb, quorum, votes, fx, grad, dec, fdec, twin, tv>>

PairTick ==
    /\ \E m \in PairIds : RunTick(m)
    /\ UNCHANGED <<hb, quorum, votes, fx, grad, dec, fdec, twin, tv>>

PairNext == PairStart \/ PairDiscovery \/ PairTick

SpecPair == PairSpecInit /\ [][PairNext]_vars

\* The loops of run go on: whenever a call is next, it is made. start,
\* on_discovery and tick are defined in every state, so a step of the run is
\* possible exactly when a step of its control flow is, and every step of the
\* run changes sim.
SpecPairFair == SpecPair /\ WF_sim(LoopNext)

(***************************************************************************)
(* SpecVectors: calls of run_test_vector.                                  *)
(***************************************************************************)
VectorSpecInit ==
    /\ all_modules = Ascending
    /\ ModuleInit({Self})
    /\ VectorInit
    /\ hb = IdleHb
    /\ quorum = IdleQuorum
    /\ votes = IdleVotes
    /\ fx = IdleQ16
    /\ grad = IdleGradient
    /\ dec = IdleDecay
    /\ fdec = IdleFieldDecay
    /\ twin = IdleTwin
    /\ sim = IdleSim

TestVector == TestVectorStep /\ UNCHANGED <<moduleVars, hb, quorum, votes, fx, grad, dec, fdec, twin, sim>>

VectorNext == TestVector

SpecVectors == VectorSpecInit /\ [][VectorNext]_vars

(***************************************************************************)
(* Claims                                                                  *)
(***************************************************************************)
ItemIds(items) == [i \in 1 .. Len(items) |-> items[i].id]
Items(known) == {known[i] : i \in 1 .. Len(known)}

\* C1: when tick finds one or more neighbors missing from the registry, it
\* returns normally, re-election has run, and no neighbor left in the list is
\* missing from the registry.
C1_TickSelfHeals ==
    (outcome.op = "tick" /\ outcome.vanished >= 1)
        => /\ outcome.raised = "none"
           /\ outcome.reelected
           /\ \A i \in 1 .. Len(neighbors[Self]) :
                  neighbors[Self][i].id \in Live(all_modules)

\* C2: after _reelect the neighbors are the first K known modules that are
\* live, in sorted order: a known module that is gone takes no slot, so the
\* list has min(K, number of known live modules) entries.
C2_ReelectFillsSlots ==
    outcome.reelected =>
        LET liveKnown == SelectSeq(SortedByDistance(known_modules[Self]),
                                   LAMBDA it : it.id \in Live(all_modules))
        IN  /\ Ids(neighbors[Self]) = ItemIds(FirstK(liveKnown))
            /\ Len(neighbors[Self]) = Min(K_NEIGHBORS, Len(liveKnown))

\* The ids of a set of known items by distance, then by id.
RECURSIVE ByDistanceThenId(_)
ByDistanceThenId(items) ==
    IF items = {} THEN << >>
    ELSE LET first == CHOOSE x \in items : \A y \in items :
                          x.dist < y.dist \/ (x.dist = y.dist /\ x.id <= y.id)
         IN  <<first.id>> \o ByDistanceThenId(items \ {first})

\* C3: re-election orders by distance and breaks ties by ascending id, so the
\* neighbor list depends only on the set of known (id, position) pairs, not on
\* the order of discovery, and has min(K, known) entries.
C3_ReelectOrderIndependent ==
    outcome.reelected =>
        /\ Ids(neighbors[Self]) = FirstK(ByDistanceThenId(Items(known_modules[Self])))
        /\ Len(neighbors[Self]) = Min(K_NEIGHBORS, Len(known_modules[Self]))

\* C4: the neighbor list never holds more than K = 7 entries.
C4_NeighborsAtMostK == Len(neighbors[Self]) <= K_NEIGHBORS

\* The list is full while more than K live modules are known, one of them
\* re-elected by a tick after a neighbor had gone.
C4_Witness ==
    /\ Len(neighbors[Self]) = K_NEIGHBORS
    /\ outcome.op = "tick" /\ outcome.reelected
    /\ Cardinality(KnownIds(known_modules[Self]) \cap Live(all_modules)) > K_NEIGHBORS

\* C5 as stated: after announcements from live peers the neighbors are the K
\* nearest known peers (all of them when fewer than K are known): no known
\* peer outside the list is nearer than a neighbor.
C5_KNearest ==
    /\ Len(neighbors[Self]) = Min(K_NEIGHBORS, Len(known_modules[Self]))
    /\ \A i \in 1 .. Len(known_modules[Self]), j \in 1 .. Len(neighbors[Self]) :
           known_modules[Self][i].id \notin NeighborIds(neighbors[Self])
               => known_modules[Self][i].dist >= neighbors[Self][j].distance

\* C5 amended: after announcements from live peers the neighbors are all the
\* known peers while at most K are known, and the first K peers discovered
\* from then on: a peer first heard of when the list is full is not elected.
C5_FirstKDiscovered ==
    NeighborIds(neighbors[Self]) =
        {known_modules[Self][i].id :
            i \in 1 .. Min(K_NEIGHBORS, Len(known_modules[Self]))}

\* A peer nearer than a neighbor was discovered when the list was full.
C5_Witness ==
    /\ outcome.op = "on_discovery" /\ ~outcome.reelected
    /\ Len(neighbors[Self]) = K_NEIGHBORS
    /\ \E i \in 1 .. Len(known_modules[Self]), j \in 1 .. Len(neighbors[Self]) :
           /\ known_modules[Self][i].id \notin NeighborIds(neighbors[Self])
           /\ known_modules[Self][i].dist < neighbors[Self][j].distance

\* C6: with received_heartbeat the result is Alive, from every current state
\* and for every elapsed, period and timeout_count.
C6_ReceivedGivesAlive ==
    (hb.called /\ hb.received_heartbeat) => hb.result = "Alive"

\* Recovery from Dead with the dead threshold exceeded.
C6_Witness ==
    /\ hb.called /\ hb.received_heartbeat
    /\ hb.current_state = "Dead"
    /\ hb.elapsed_since_last > hb.period_us * hb.timeout_count
    /\ hb.result = "Alive"

DefaultTiming ==
    hb.period_us = HEARTBEAT_PERIOD_US /\ hb.timeout_count = HEARTBEAT_TIMEOUT_COUNT

C8_UnknownStays ==
    (hb.called /\ ~hb.received_heartbeat /\ hb.current_state = "Unknown")
        => hb.result = "Unknown"

\* C9: with total_voters = 0 the result is Rejected, for every yes_count and
\* threshold, threshold 0 included.
C9_EmptyElectorateRejected ==
    (quorum.called /\ quorum.total_voters = 0) => quorum.result = "Rejected"

\* Nobody votes and nothing is required.
C9_Witness ==
    /\ quorum.called
    /\ quorum.total_voters = 0 /\ quorum.yes_count = 0
    /\ quorum.threshold = Fraction(0, 10)
    /\ quorum.result = "Rejected"

\* C10: for total_voters > 0 the result is Approved when yes_count /
\* total_voters >= threshold and Rejected otherwise, the boundary included:
\* 5 of 10 at 0.5 is Approved, 4 of 10 is Rejected.
C10_ApprovedIffRatioAtLeast ==
    (quorum.called /\ quorum.total_voters > 0) =>
        LET reached == quorum.yes_count * quorum.threshold.den
                           >= quorum.threshold.num * quorum.total_voters
        IN  /\ reached => quorum.result = "Approved"
            /\ ~reached => quorum.result = "Rejected"
            /\ (quorum.total_voters = 10 /\ quorum.threshold = Fraction(5, 10)) =>
                   /\ quorum.yes_count = 5 => quorum.result = "Approved"
                   /\ quorum.yes_count = 4 => quorum.result = "Rejected"

\* A proposal exactly at its threshold.
C10_Witness ==
    /\ quorum.called
    /\ quorum.yes_count = 5 /\ quorum.total_voters = 10
    /\ quorum.threshold = Fraction(5, 10)
    /\ quorum.result = "Approved"

\* C11: quorum_check returns Approved or Rejected and nothing else: never
\* Pending, Timeout or Cancelled.
C11_OnlyApprovedOrRejected ==
    quorum.called => quorum.result \in {"Approved", "Rejected"}

\* A vote short of its threshold, with voters still to answer, is Rejected.
C11_Witness ==
    /\ quorum.called
    /\ quorum.total_voters = 5 /\ quorum.yes_count = 0
    /\ quorum.threshold = Fraction(5, 10)
    /\ quorum.result = "Rejected"

\* C12: threshold_votes_needed is ceiling(total_voters * threshold), and it is
\* the exact short-circuit point: for every total_voters, yes_count and
\* threshold in [0, 1], quorum_check is Approved exactly when yes_count >=
\* threshold_votes_needed.
C12_NeededIsShortCircuitPoint ==
    votes.called =>
        /\ votes.needed = CeilDiv(votes.total_voters * votes.threshold.num,
                                  votes.threshold.den)
        /\ (votes.result = "Approved") <=> (votes.yes_count >= votes.needed)

\* With voters, the point computed is one above the number of votes at which
\* quorum_check approves.
C12_FloatCeilingOvershoots ==
    /\ votes.called /\ votes.total_voters > 0
    /\ votes.result = "Approved"
    /\ votes.yes_count < votes.needed

\* The integer of the signed 32-bit range that differs from a by a multiple
\* of 2^32.
Reduced32(a) == Int2(((a.hi + 32768) % 65536) - 32768, a.lo)

\* C13: the bits of every Q16_16 object, built from an integer or returned by
\* +, -, *, /, unary minus or abs on operands within range, lie within the
\* signed 32-bit range, an integer outside the range (above or below) being
\* reduced modulo 2^32 into it.
C13_BitsWithinInt32 ==
    (fx.called /\ fx.raised = "none") =>
        /\ InInt32(fx.value)
        /\ fx.op = "__init__" => fx.value = Reduced32(fx.self)

\* C14: dividing by a Q16_16 whose bits are zero raises the divide-by-zero
\* error to the caller and yields no value; dividing by any other divisor
\* raises nothing.
C14_DivideByZeroRaises ==
    (fx.called /\ fx.op = "__truediv__") =>
        /\ IntIsZero(fx.other) => fx.raised = "ZeroDivisionError"
        /\ ~IntIsZero(fx.other) => fx.raised = "none"

\* 1.0 divided by zero.
C14_Witness ==
    /\ fx.called /\ fx.op = "__truediv__"
    /\ fx.self = Int2(1, 0) /\ IntIsZero(fx.other)
    /\ fx.raised = "ZeroDivisionError"

\* C15: gradient is antisymmetric: gradient(a, b, c) == -gradient(b, a, c) for
\* all fields a, b and every component c, component values at the ends of
\* the Q16.16 range included.
C15_GradientAntisymmetric ==
    (grad.called /\ grad.component \in ComponentNames) =>
        /\ grad.forward.raised = "none" /\ grad.negated.raised = "none"
        /\ grad.forward.value = grad.negated.value

\* C16: gradient with a component name other than load, thermal, power,
\* custom0 and custom1 returns the Q16.16 zero and raises nothing.
C16_UnknownComponentIsZero ==
    (grad.called /\ grad.component \notin ComponentNames) =>
        /\ grad.forward.raised = "none"
        /\ grad.forward.value = Value("Q16_16", Q16_ZERO)

\* C17: apply_decay is monotone in the elapsed time: for a value v > 0 and
\* 0 <= t1 < t2, apply_decay(v, t1) >= apply_decay(v, t2) >= 0, the segment
\* boundaries at tau, 2 tau, 3 tau and 5 tau included.
C17_DecayMonotone ==
    (dec.called /\ IntLess(Int2(0, 0), dec.value)
        /\ 0 <= dec.elapsed_us /\ dec.elapsed_us < dec.later_us) =>
        /\ ~IntLess(dec.result, dec.later_result)
        /\ ~IntIsNeg(dec.later_result)

\* 1.0 decayed one microsecond before tau and at tau: 24118 and 24117 bits.
C17_Witness ==
    /\ dec.called /\ dec.value = Int2(1, 0) /\ dec.tau_us = tau_us_default
    /\ dec.elapsed_us = tau_us_default - 1 /\ dec.later_us = tau_us_default
    /\ IntLess(dec.later_result, dec.result)
    /\ IntLess(Int2(0, 0), dec.later_result)

\* C18: decay at an elapsed time of 5 tau or more, tau = 100000 microseconds,
\* yields exactly zero for every component, whatever its value was: both
\* apply_decay and Field.decay.
C18_ZeroFromFiveTau ==
    /\ (dec.called /\ dec.tau_us = tau_us_default) =>
          /\ dec.elapsed_us >= 5 * tau_us_default => IntIsZero(dec.result)
          /\ dec.later_us >= 5 * tau_us_default => IntIsZero(dec.later_result)
    /\ (fdec.called /\ fdec.now - fdec.field.timestamp >= 5 * FIELD_DECAY_TAU_US) =>
          /\ fdec.raised = "none"
          /\ fdec.result.load = 0 /\ fdec.result.thermal = 0 /\ fdec.result.power = 0

\* C19: whatever the field and now, no component of the decayed field is larger
\* in magnitude than the component it came from: both apply_decay and
\* Field.decay.
C19_MagnitudeNeverGrows ==
    /\ dec.called =>
          /\ ~IntLess(IntAbs(dec.value), IntAbs(dec.result))
          /\ ~IntLess(IntAbs(dec.value), IntAbs(dec.later_result))
    /\ (fdec.called /\ fdec.raised = "none") =>
          /\ fdec.result.load <= fdec.field.load
          /\ fdec.result.thermal <= fdec.field.thermal
          /\ fdec.result.power <= fdec.field.power

\* C20: with now earlier than the timestamp of the field, decay takes the
\* elapsed time as 0: it raises nothing and returns every component as it
\* was: both apply_decay and Field.decay.
C20_NegativeElapsedClamped ==
    /\ (dec.called /\ dec.elapsed_us < 0) => dec.result = dec.value
    /\ (fdec.called /\ fdec.now < fdec.field.timestamp) =>
          /\ fdec.raised = "none"
          /\ fdec.result = fdec.field

\* C21: Field.decay produces a snapshot: the field it returns has the timestamp
\* and the source of the field it was called on, and that field is the same
\* after the call as before.
C21_DecayIsSnapshot ==
    (fdec.called /\ fdec.raised = "none") =>
        /\ fdec.result.timestamp = fdec.field.timestamp
        /\ fdec.result.source = fdec.field.source
        /\ fdec.after = fdec.field

\* A field published at tau by module 1, decayed half a tau later: the load
\* has fallen, timestamp and source are those of the field.
C21_Witness ==
    /\ fdec.called /\ fdec.raised = "none"
    /\ fdec.field.timestamp = FIELD_DECAY_TAU_US /\ fdec.field.source = Self
    /\ fdec.now > fdec.field.timestamp
    /\ fdec.result.load < fdec.field.load
    /\ fdec.result.timestamp = FIELD_DECAY_TAU_US /\ fdec.result.source = Self

\* C22: at the end of every tick the state of the module follows from the
\* number of its neighbors alone: ACTIVE when it is at least K_NEIGHBORS / 2
\* (as the integer K_NEIGHBORS // 2 of the code), DEGRADED when it is above 0
\* and below that, ISOLATED when it is 0.
C22_StateFromNeighborCount ==
    outcome.op = "tick" =>
        LET count == Len(neighbors[Self])
        IN  /\ count >= K_NEIGHBORS \div 2 => state[Self] = "ACTIVE"
            /\ (0 < count /\ count < K_NEIGHBORS \div 2) => state[Self] = "DEGRADED"
            /\ count = 0 => state[Self] = "ISOLATED"

\* C23: a module is created in INIT and start moves it to DISCOVERING; no
\* start, on_discovery or tick takes the state back to INIT once it has left
\* it, every tick leaves the state in ACTIVE, DEGRADED or ISOLATED, and no
\* operation sets REFORMING or SHUTDOWN.
C23_StateLifecycle ==
    /\ state[Self] = "INIT"
    /\ [][/\ outcome'.op = "start" => state'[Self] = "DISCOVERING"
          /\ state[Self] # "INIT" => state'[Self] # "INIT"
          /\ outcome'.op = "tick" => state'[Self] \in {"ACTIVE", "DEGRADED", "ISOLATED"}
          /\ state'[Self] \notin {"REFORMING", "SHUTDOWN"}]_vars

\* The decayed loads of the fields of the modules ids, at the time now.
DecayedLoads(ids, now) == [i \in 1 .. Len(ids) |-> decay(my_field[ids[i]], now).load]

\* C24: within a tick pruning comes before sampling: the neighbor average is
\* taken only over fields of modules that are neighbors after pruning and
\* re-election and are in the live set; a module absent from the live set
\* contributes no field.
C24_PruningBeforeSampling ==
    outcome.op = "tick" =>
        /\ \A i \in 1 .. Len(outcome.sampled) :
              /\ outcome.sampled[i] \in Live(all_modules)
              /\ outcome.sampled[i] \in NeighborIds(neighbors[Self])
        /\ outcome.raised = "none" =>
              outcome.gradient =
                  GradientOf(twin.before,
                             DecayedLoads(outcome.sampled, my_field[Self].timestamp))

\* A tick that found one neighbor gone, whose last field carries a load, and
\* took the average over the others.
C24_Witness ==
    /\ outcome.op = "tick" /\ outcome.raised = "none" /\ outcome.vanished = 1
    /\ outcome.sampled # << >>
    /\ outcome.gradient # 0
    /\ \E j \in KnownIds(known_modules[Self]) \ Live(all_modules) : my_field[j].load > 0

\* C25: after every tick the load of the module lies within [0, 1], whatever
\* the load it had before and whether or not it has neighbors.
C25_LoadWithinUnitInterval ==
    outcome.op = "tick" => (0 <= load[Self] /\ load[Self] <= LoadScale)

\* C26: tick is deterministic: two executions from the same module state, with
\* the same now and the same registry, end in the same state, every component
\* of the published field (load, thermal, power, timestamp, source) included.
C26_TickDeterministic ==
    twin.called =>
        /\ twin.run.raised = outcome.raised
        /\ twin.run.neighbors = neighbors[Self]
        /\ twin.run.load = load[Self]
        /\ twin.run.state = state[Self]
        /\ twin.run.my_field = my_field[Self]

\* The first tick of the two-module run: module Self (A), first in the
\* registry, created with load 0.8, has just been ticked at now = 1000, and
\* module Self + 1 (B), created with load 0.2, has not been ticked yet.
FirstTickOfA ==
    /\ sim.at = <<"ticking">> /\ sim.now = TickPeriod /\ sim.ticked = {Self}
    /\ all_modules[1] = Self
    /\ sim.initial[Self] = (4 * LoadScale) \div 5
    /\ sim.initial[Self + 1] = LoadScale \div 5

\* C27: with A at load 0.8 and B at load 0.2, one cell apart, and a tick
\* period of 1000, the gradient A computes in the first tick is -0.6 and A's
\* load decreases toward B's.
C27_FirstGradient ==
    FirstTickOfA =>
        /\ outcome.gradient = 0 - (6 * LoadScale) \div 10
        /\ load[Self] < sim.initial[Self]
        /\ load[Self] >= sim.initial[Self + 1]

\* The distance between the loads of the two modules.
LoadGap ==
    IF load[Self] >= load[Self + 1] THEN load[Self] - load[Self + 1]
    ELSE load[Self + 1] - load[Self]

\* C28: two modules that are each other's only neighbor and start with
\* different loads have, from some round on, loads within 0.01 of each other,
\* whatever the order in which the two are ticked in each round.
C28_LoadsConverge == <>[](LoadGap <= LoadScale \div 100)

\* Both modules ticked in a late round, B first although A heads the
\* registry in one of the first rounds or not, the loads 0.01 or less apart
\* after having started 0.6 apart.
C28_Witness ==
    /\ sim.at = <<"ticking">> /\ sim.now = MaxRounds * TickPeriod /\ sim.ticked = {}
    /\ sim.initial[Self] - sim.initial[Self + 1] = (6 * LoadScale) \div 10
    /\ Len(neighbors[Self]) = 1 /\ Len(neighbors[Self + 1]) = 1
    /\ LoadGap <= LoadScale \div 100

\* C29: on_discovery ignores the module's own announcement: known_modules,
\* neighbors and state are left as they are, so the module's own id is never
\* among its known modules nor among its neighbors.
C29_SelfDiscoveryIgnored ==
    /\ [](/\ Self \notin KnownIds(known_modules[Self])
          /\ Self \notin NeighborIds(neighbors[Self]))
    /\ [][on_discovery(Self, Self, PositionOf(Self)) =>
              UNCHANGED <<known_modules, neighbors, state>>]_vars

\* The module has heard of a peer and then of itself: with fewer than
\* K_NEIGHBORS neighbors, only its own announcement is followed by no
\* re-election.
C29_Witness ==
    /\ outcome.op = "on_discovery" /\ ~outcome.reelected
    /\ Len(neighbors[Self]) < K_NEIGHBORS
    /\ known_modules[Self] # << >>

\* C30: known_modules only accumulates: every entry stays, in its place;
\* the only change is on_discovery adding, or writing again, the entry of
\* another module, (position, squared distance); tick with its pruning and
\* re-election leaves the dict alone, whether or not a peer has left.
C30_KnownOnlyAccumulates ==
    [][LET known == known_modules[Self]
           after == known_modules'[Self]
       IN  /\ Len(known) <= Len(after)
           /\ \A i \in 1 .. Len(known) : after[i].id = known[i].id
           /\ after # known =>
                 /\ outcome'.op = "on_discovery"
                 /\ \E s \in ModuleIds \ {Self} :
                        after = Upsert(known, s, PositionOf(s),
                                       distance_squared(PositionOf(Self), PositionOf(s)))]_vars

\* A tick has pruned a neighbor that left the registry, and the peer is
\* still recorded.
C30_Witness ==
    /\ outcome.op = "tick" /\ outcome.vanished >= 1
    /\ KnownIds(known_modules[Self]) \ Live(all_modules) # {}
    /\ NeighborIds(neighbors[Self]) \subseteq Live(all_modules)

\* C31: a tick of module M changes only M's own load, my_field, neighbors and
\* state: known_modules, the registry, and the load, field, neighbors and
\* state of every other module are as they were.
C31_TickFrame ==
    [][outcome'.op = "tick" =>
          LET m == outcome'.module
          IN  /\ all_modules' = all_modules
              /\ known_modules' = known_modules
              /\ \A j \in (DOMAIN state) \ {m} :
                     /\ state'[j] = state[j]
                     /\ load'[j] = load[j]
                     /\ neighbors'[j] = neighbors[j]
              /\ \A j \in ModuleIds \ {m} : my_field'[j] = my_field[j]]_vars

\* Module Self has been ticked and sampled the field the other module had
\* published in an earlier round; the other module holds state of its own.
C31_Witness ==
    /\ outcome.op = "tick" /\ outcome.module = Self /\ outcome.raised = "none"
    /\ outcome.sampled = <<Self + 1>>
    /\ my_field[Self + 1].load > 0 /\ my_field[Self + 1].timestamp < my_field[Self].timestamp
    /\ state[Self + 1] # "INIT" /\ neighbors[Self + 1] # << >>

\* C35: on_discovery on a module whose neighbor list already holds K entries
\* only records the sender in known_modules: no re-election runs and the
\* neighbor list (members, order, distances) stays as it is; on_discovery
\* re-elects only when the list holds fewer than K entries.
C35_FullListKept ==
    [][outcome'.op = "on_discovery" =>
          /\ Len(neighbors[Self]) >= K_NEIGHBORS =>
                 /\ ~outcome'.reelected
                 /\ neighbors' = neighbors
          /\ outcome'.reelected => Len(neighbors[Self]) < K_NEIGHBORS
          /\ Len(known_modules'[Self]) >= Len(known_modules[Self])
          /\ UNCHANGED <<all_modules, state, load, my_field>>]_vars

\* A peer was recorded when the list was full: more peers are known than
\* the list holds, and the last one known is not a neighbor.
C35_Witness ==
    /\ outcome.op = "on_discovery" /\ ~outcome.reelected
    /\ Len(neighbors[Self]) = K_NEIGHBORS
    /\ Len(known_modules[Self]) > K_NEIGHBORS
    /\ known_modules[Self][Len(known_modules[Self])].id \notin NeighborIds(neighbors[Self])

\* C36: after every tick the published field is fresh: its timestamp is the
\* now of the tick, its source the module's id and its load the module's load
\* after the adjustment; before the first tick it carries load 0.
C36_PublishedFieldFresh ==
    /\ outcome.op = "tick" =>
           /\ my_field[Self].timestamp \in NowSamples
           /\ my_field[Self].source = Self
           /\ my_field[Self].load = load[Self]
    /\ state[Self] \in {"INIT", "DISCOVERING"} => my_field[Self].load = 0

\* C37: without a received heartbeat the transition never returns a healthier
\* state: from Dead it returns Dead, from Suspect it returns Suspect or Dead,
\* for every elapsed value, period and timeout_count.
C37_NoRecoveryWithoutHeartbeat ==
    (hb.called /\ ~hb.received_heartbeat) =>
        /\ hb.current_state = "Dead" => hb.result = "Dead"
        /\ hb.current_state = "Suspect" => hb.result \in {"Suspect", "Dead"}

\* C38: after any sequence of operations the neighbor list holds no id twice,
\* every neighbor is a key of known_modules and is marked ALIVE, and the
\* recorded distances do not decrease along the list.
C38_NeighborListWellFormed ==
    LET nbrs == neighbors[Self]
    IN  /\ \A i, j \in 1 .. Len(nbrs) : i # j => nbrs[i].id # nbrs[j].id
        /\ NeighborIds(nbrs) \subseteq KnownIds(known_modules[Self])
        /\ \A i \in 1 .. Len(nbrs) : nbrs[i].health = "ALIVE"
        /\ \A i \in 1 .. Len(nbrs) - 1 : nbrs[i].distance <= nbrs[i + 1].distance

\* A tick found a neighbor gone and re-elected from peers discovered farthest
\* first: the list holds several neighbors, at equal and at different distances.
C38_Witness ==
    /\ outcome.op = "tick" /\ outcome.reelected /\ outcome.raised = "none"
    /\ Len(neighbors[Self]) >= 3
    /\ neighbors[Self][1].distance < neighbors[Self][Len(neighbors[Self])].distance
    /\ \E i \in 1 .. Len(neighbors[Self]) - 1 :
           neighbors[Self][i].distance = neighbors[Self][i + 1].distance
    /\ known_modules[Self][1].dist > known_modules[Self][Len(known_modules[Self])].dist

\* C39: multiplication truncates the same way for either sign: for in-range
\* a and b whose products stay in range, (-a) * b == -(a * b).
C39_MulSignSymmetric ==
    (/\ fx.called /\ fx.op = "__mul__"
     /\ InInt32(IntNeg(fx.self))
     /\ InInt32(MulShift(fx.self, fx.other))
     /\ InInt32(MulShift(IntNeg(fx.self), fx.other))
     /\ InInt32(IntNeg(MulShift(fx.self, fx.other)))) =>
        __mul__(__neg__(fx.self).value, fx.other).value = __neg__(fx.value).value

\* C40: abs of an in-range value has bits >= 0 and is the value or its
\* negation, the most negative value (bits = -2^31) included.
C40_AbsNonNegative ==
    (fx.called /\ fx.op = "__abs__" /\ InInt32(fx.self)) =>
        /\ ~IntIsNeg(fx.value)
        /\ fx.value = fx.self \/ fx.value = __neg__(fx.self).value

\* The float f lies within the range of Q16.16: MIN <= f <= MAX, in bits
\* -2^31 <= f * SCALE <= 2^31 - 1.
InQ16Range(f) ==
    LET d == MulDivDigits(IntAbs(f.mant), 0, f.num, f.den)
    IN  IF IntIsNeg(f.mant)
        THEN IntLess(d.q, IntNeg(INT32_MIN)) \/ (d.q = IntNeg(INT32_MIN) /\ d.r = 0)
        ELSE IntLess(d.q, INT32_MAX) \/ (d.q = INT32_MAX /\ d.r = 0)

\* |round_trip - f| < 1 / SCALE: round_trip is a whole number of bits, and
\* taken with the sign of f it is the whole part of |f| * SCALE or, when a
\* fraction of a bit is left, the next integer.
WithinOneUlp(round_trip, f) ==
    LET d == MulDivDigits(IntAbs(f.mant), 0, f.num, f.den)
        mirrored == IF IntIsNeg(f.mant) THEN IntNeg(round_trip.mant) ELSE round_trip.mant
    IN  /\ round_trip.num = round_trip.den
        /\ mirrored = d.q \/ (d.r > 0 /\ mirrored = IntAdd(d.q, FromInt(1)))

\* The call of run_test_vector converted a number with q15_convert.
ConvertedNumber ==
    /\ tv.called
    /\ tv.vector.module = "types" /\ tv.vector.function = "q15_convert"
    /\ tv.vector.input.type = "dict" /\ tv.vector.input.float.type = "number"

\* C34: fixed-point round trip: for every float f within the range of Q16.16,
\* q15_convert returns OK with fixed_bits = from_float(f) in range and
\* |to_float(from_float(f)) - f| < 1/65536.
C34_RoundTripWithinUlp ==
    (ConvertedNumber /\ InQ16Range(tv.vector.input.float.v)) =>
        /\ tv.raised = "none" /\ tv.doc.return = "OK"
        /\ InInt32(tv.doc.fixed_bits)
        /\ tv.doc.round_trip = to_float(tv.doc.fixed_bits)
        /\ WithinOneUlp(tv.doc.round_trip, tv.vector.input.float.v)

\* A negative float half a bit away from two Q16.16 values was converted: the
\* round trip differs from it by half a bit.
C34_Witness ==
    /\ ConvertedNumber /\ InQ16Range(tv.vector.input.float.v)
    /\ IntIsNeg(tv.vector.input.float.v.mant)
    /\ 2 * MulDivDigits(IntAbs(tv.vector.input.float.v.mant), 0,
                        tv.vector.input.float.v.num, tv.vector.input.float.v.den).r
           = tv.vector.input.float.v.den
    /\ tv.doc.return = "OK"
    /\ tv.doc.round_trip # tv.vector.input.float.v

\* C33: for every test-vector document run_test_vector returns a result
\* document whose return is OK, an Error or a NotImplemented description; an
\* exception raised while the vector runs becomes the Error document and
\* never reaches the caller.
C33_VectorAlwaysAnswered ==
    tv.called =>
        /\ tv.raised = "none"
        /\ tv.doc.return \in {"OK", "Error", "NotImplemented"}
        /\ Dispatch(tv.vector).raised # "none" =>
               /\ tv.doc.return = "Error"
               /\ tv.doc.error = Dispatch(tv.vector).raised

\* gradient returned a value that is no Q16_16 (the int difference of two
\* timestamps, say), grad.to_float() raised AttributeError, and the caller
\* received the Error document.
C33_Witness ==
    /\ tv.called
    /\ tv.vector.module = "field" /\ tv.vector.function = "field_gradient"
    /\ tv.vector.input.type = "dict"
    /\ tv.vector.input.component.type = "str"
    /\ tv.vector.input.my_load.type = "number"
    /\ tv.vector.input.neighbor_load.type = "number"
    /\ Dispatch(tv.vector).raised = "AttributeError"
    /\ tv.raised = "none"
    /\ tv.doc.return = "Error" /\ tv.doc.error = "AttributeError"

\* The vector with the list l as its "votes".
WithVotes(vector, l) == [vector EXCEPT !.input.votes = Value("list", l)]

\* C32: in consensus vote evaluation Abstain votes count neither toward the
\* Yes numerator nor toward the denominator: the outcome of a vote list is
\* the outcome of the list with one more Abstain vote and of the list with its
\* Abstain votes removed, total_voters given or derived from the list.
C32_AbstainIgnored ==
    (/\ tv.called
     /\ tv.vector.module = "consensus" /\ tv.vector.function = "consensus_vote"
     /\ tv.vector.input.type = "dict" /\ tv.vector.input.votes.type = "list"
     /\ tv.doc.return = "OK") =>
        LET vote_list == tv.vector.input.votes.v
        IN  /\ run_test_vector(WithVotes(tv.vector, Append(vote_list, "Abstain"))).doc = tv.doc
            /\ run_test_vector(WithVotes(tv.vector,
                   SelectSeq(vote_list, LAMBDA v : v # "Abstain"))).doc = tv.doc

====
